---- MODULE Spec2Model ----
(***************************************************************************)
(* Verification model of the rebased stardust indexer: the checkpoint      *)
(* worker (src/src/sync/worker.rs), the progress store                     *)
(* (src/src/sync/progress_store.rs), the executor wiring                   *)
(* (src/src/sync/handler.rs) and the expiration-resolved query             *)
(* (src/src/rest/routes/v1/mod.rs).                                        *)
(*                                                                         *)
(* Optional values (Option<T>, a table row that may be absent, OnceLock)   *)
(* are sets with at most one element: {} is None, {x} is Some(x).          *)
(***************************************************************************)
EXTENDS Integers, Sequences, FiniteSets, TLC

(***************************************************************************)
(* Bounds of the model.                                                    *)
(***************************************************************************)
\* highest checkpoint sequence number the remote store serves
MaxSeq == 2

(***************************************************************************)
(* The ledger data the worker consumes.                                    *)
(***************************************************************************)
Ids == {1, 2}
Addrs == {"A", "B"}

\* iota_types ExpirationUnlockCondition carried inside an output's contents
Exp(o, r, t) == {[owner |-> o, return_address |-> r, unix_time |-> t]}
NoExp == {}

\* the bcs-encoded contents of an output: a version stamp (standing for the
\* balance and the other payload fields) and the optional expiration
Contents(v, e) == [ver |-> v, exp |-> e]

\* iota_types::object::Object as far as the worker reads it
Obj(i, sh, tag, c) == [id |-> i, shared |-> sh, tag |-> tag, contents |-> c]

\* a removed object of removed_objects_pre_version()
Rem(i, sh) == [id |-> i, shared |-> sh]

\* CheckpointTransaction: is_genesis_tx(), whether input_objects() holds
\* MovePackage(package_id), the output objects and the pre-version removed ones
Tx(gen, pkg, outs, rems) ==
    [genesis |-> gen, has_package |-> pkg, output_objects |-> outs, removed |-> rems]

\* checkpoint_summary.timestamp_ms of the checkpoint with sequence number s
\* (the chain's timestamps grow with the sequence number); a checkpoint of the
\* chain is its list of transactions, its sequence number the position
TimestampOf(s) == s * 1000

\* transaction lists a checkpoint of the modelled chain may hold
TxPool ==
    { \* two creations: a Basic and an Nft output
      << Tx(FALSE, TRUE,
            << Obj(1, TRUE, "basic", Contents(1, Exp("A", "B", 1))),
               Obj(2, TRUE, "nft", Contents(1, Exp("B", "A", 2))) >>, << >>) >>,
      \* a new version of object 1 next to outputs the worker must skip; object
      \* 2 is removed, and created again by a later transaction of the same
      \* checkpoint; a transaction that does not touch the package
      << Tx(FALSE, TRUE,
            << Obj(1, TRUE, "basic", Contents(2, Exp("B", "A", 2))),
               Obj(2, FALSE, "basic", Contents(3, Exp("A", "A", 1))),
               Obj(2, TRUE, "other", Contents(3, Exp("A", "A", 1))) >>,
            << Rem(1, FALSE), Rem(2, TRUE) >>),
         Tx(FALSE, FALSE,
            << Obj(1, TRUE, "nft", Contents(3, Exp("A", "A", 1))) >>,
            << Rem(1, TRUE) >>),
         Tx(FALSE, TRUE,
            << Obj(2, TRUE, "nft", Contents(2, Exp("A", "B", 2))) >>, << >>) >>,
      \* an output without expiration unlock condition
      << Tx(FALSE, TRUE,
            << Obj(2, TRUE, "basic", Contents(1, NoExp)) >>, << >>) >> }

(***************************************************************************)
(* models.rs: the rows and the conversions.                                *)
(***************************************************************************)
\* ObjectType::try_from(&ObjectInner): the struct tag's (module, name)
ObjectTypeOf(obj) ==
    IF obj.tag = "basic" THEN {"Basic"}
    ELSE IF obj.tag = "nft" THEN {"Nft"}
    ELSE {}

\* StoredObject::try_from(Object): Some(row) or None on error
StoredObjectTryFrom(obj) ==
    IF ~obj.shared THEN {}
    ELSE IF ObjectTypeOf(obj) = {} THEN {}
    ELSE {[id |-> obj.id,
           object_type |-> CHOOSE t \in ObjectTypeOf(obj) : TRUE,
           contents |-> obj.contents]}

\* ExpirationUnlockCondition::try_from(StoredObject): the row of the decoded
\* output's expiration, an error when the output carries none
ExpirationTryFrom(so) ==
    { [owner |-> e.owner, return_address |-> e.return_address,
       unix_time |-> e.unix_time, object_id |-> so.id] : e \in so.contents.exp }

(***************************************************************************)
(* The two relations of the objects database, each a sequence of rows in   *)
(* rowid order, and the statements the worker runs on them.                *)
(***************************************************************************)
Db(objs, exps) == [objects |-> objs, expiration_unlock_conditions |-> exps]
EmptyDb == Db(<< >>, << >>)


\* an insert into objects that appends a row whatever the table holds
InsertObjectAppending(rows, so) ==
    Append(rows, so)

\* insert_into(objects).values(so).on_conflict(id).do_update().set(so): the row
\* with the id is overwritten in place, a new id is appended
UpsertObject(rows, so) ==
    IF \E i \in 1..Len(rows) : rows[i].id = so.id
    THEN [i \in 1..Len(rows) |-> IF rows[i].id = so.id THEN so ELSE rows[i]]
    ELSE Append(rows, so)

\* an insert into expiration_unlock_conditions that appends a row whatever
\* the table holds
InsertExpirationAppending(rows, eu) ==
    Append(rows, eu)

\* an insert into expiration_unlock_conditions that leaves the row of an
\* object id that is already there as it is (on_conflict do_nothing)
InsertExpirationDoNothing(rows, eu) ==
    IF \E i \in 1..Len(rows) : rows[i].object_id = eu.object_id
    THEN rows
    ELSE Append(rows, eu)

\* insert_into(expiration_unlock_conditions).values(eu).on_conflict(object_id)
\* .do_update().set(eu)
UpsertExpiration(rows, eu) ==
    IF \E i \in 1..Len(rows) : rows[i].object_id = eu.object_id
    THEN [i \in 1..Len(rows) |-> IF rows[i].object_id = eu.object_id THEN eu ELSE rows[i]]
    ELSE Append(rows, eu)

\* the transaction with plain INSERT statements (no on_conflict clause, as in
\* multi_insert_transaction of handlers/worker.rs): a row with the id makes the
\* statement fail
InsertTransactionWithoutOnConflict(db, so) ==
    LET eu == ExpirationTryFrom(so)
    IN  IF eu = {} \/ \E i \in 1..Len(db.objects) : db.objects[i].id = so.id
        THEN [ok |-> FALSE, db |-> db]
        ELSE [ok |-> TRUE,
              db |-> Db(Append(db.objects, so),
                        Append(db.expiration_unlock_conditions, CHOOSE e \in eu : TRUE))]

\* the closure of one per-object database transaction of
\* multi_insert_as_database_transactions: [ok, db]; an error of try_from
\* rolls the object upsert back
InsertTransaction(db, so) ==
    LET objs == UpsertObject(db.objects, so)
        eu   == ExpirationTryFrom(so)
    IN  IF eu = {} THEN [ok |-> FALSE, db |-> db]
        ELSE [ok |-> TRUE,
              db |-> Db(objs, UpsertExpiration(db.expiration_unlock_conditions,
                                               CHOOSE e \in eu : TRUE))]

\* ON DELETE CASCADE of expiration_unlock_conditions.object_id (the migration)
CascadeDelete(exps, ids) ==
    SelectSeq(exps, LAMBDA r : r.object_id \notin ids)

\* delete_objects on a connection that does not enforce foreign keys: the
\* expiration rows of the deleted objects stay
delete_objects_without_foreign_keys(db, addresses) ==
    LET ids == {addresses[i] : i \in 1..Len(addresses)}
    IN  Db(SelectSeq(db.objects, LAMBDA r : r.id \notin ids),
           db.expiration_unlock_conditions)

\* delete_objects: DELETE FROM objects WHERE id IN (addresses)
delete_objects(db, addresses) ==
    LET ids == {addresses[i] : i \in 1..Len(addresses)}
    IN  Db(SelectSeq(db.objects, LAMBDA r : r.id \notin ids),
           CascadeDelete(db.expiration_unlock_conditions, ids))

(***************************************************************************)
(* process_checkpoint: the selection of the batches.                       *)
(***************************************************************************)
\* tx_touches_stardust_objects
\* variant (a) of the filter: a transaction counts when one of its outputs has
\* the package id as the address of its struct tag
tx_has_output_of_package(tx) ==
    \E i \in 1..Len(tx.output_objects) : tx.output_objects[i].tag_address = "pkg"

tx_touches_stardust_objects(tx) == tx.genesis \/ tx.has_package

RECURSIVE SharedRemoved(_)
\* removed_objects_pre_version().filter_map(is_shared -> id)
SharedRemoved(rems) ==
    IF rems = << >> THEN << >>
    ELSE (IF Head(rems).shared THEN << Head(rems).id >> ELSE << >>)
         \o SharedRemoved(Tail(rems))

RECURSIVE StoredOutputs(_)
\* output_objects.filter(is_shared).filter_map(StoredObject::try_from(..).ok())
StoredOutputs(outs) ==
    IF outs = << >> THEN << >>
    ELSE (IF Head(outs).shared /\ StoredObjectTryFrom(Head(outs)) # {}
          THEN << CHOOSE so \in StoredObjectTryFrom(Head(outs)) : TRUE >>
          ELSE << >>)
         \o StoredOutputs(Tail(outs))

RECURSIVE DeletedAddresses(_)
DeletedAddresses(txs) ==
    IF txs = << >> THEN << >>
    ELSE (IF tx_touches_stardust_objects(Head(txs))
          THEN SharedRemoved(Head(txs).removed) ELSE << >>)
         \o DeletedAddresses(Tail(txs))

RECURSIVE CreatedObjects(_)
CreatedObjects(txs) ==
    IF txs = << >> THEN << >>
    ELSE (IF tx_touches_stardust_objects(Head(txs))
          THEN StoredOutputs(Head(txs).output_objects) ELSE << >>)
         \o CreatedObjects(Tail(txs))

RECURSIVE MultiInsert(_, _)
\* multi_insert_as_database_transactions without database errors: the
\* transactions run in order and the first failing one ends the loop
MultiInsert(db, sos) ==
    IF sos = << >> THEN [ok |-> TRUE, db |-> db]
    ELSE LET r == InsertTransaction(db, Head(sos))
         IN  IF r.ok THEN MultiInsert(r.db, Tail(sos)) ELSE r

\* process_checkpoint run alone and without database errors: [ok, db]
ProcessAlone(db, txs) ==
    LET ins == MultiInsert(db, CreatedObjects(txs))
    IN  IF ~ins.ok THEN ins
        ELSE [ok |-> TRUE, db |-> delete_objects(ins.db, DeletedAddresses(txs))]

\* the sign bit of the i64 that u64 values are cast to (2^63 in the code; the
\* model's words are narrower, its u64 ends at 2 * I64SignBit - 1)
I64SignBit == 1073741824

\* u as i64: the cast of a u64 to the i64 of the same bits
AsI64(u) == IF u < I64SignBit THEN u ELSE (u - I64SignBit) - I64SignBit

\* i as u64: the cast of an i64 to the u64 of the same bits
AsU64(i) == IF i >= 0 THEN i ELSE (i + I64SignBit) + I64SignBit

(***************************************************************************)
(* progress_store.rs: SqliteProgressStore on the table last_checkpoint_sync *)
(* (a set of rows keyed by task_id).                                       *)
(***************************************************************************)
\* a load that takes the stored number for the first checkpoint still to do
\* a load that converts the stored i64 with a checked conversion and takes 0
\* for a negative number
load_checked_conversion(rows, task_name) ==
    IF \E r \in rows : r.task_id = task_name /\ r.sequence_number >= 0
    THEN (CHOOSE r \in rows : r.task_id = task_name).sequence_number
    ELSE 0

load_as_next_checkpoint(rows, task_name) ==
    IF \E r \in rows : r.task_id = task_name
    THEN (CHOOSE r \in rows : r.task_id = task_name).sequence_number + 1
    ELSE 0

\* load: the task's sequence_number, 0 when the task has no row
load(rows, task_name) ==
    IF \E r \in rows : r.task_id = task_name
    THEN AsU64((CHOOSE r \in rows : r.task_id = task_name).sequence_number)
    ELSE 0

\* a save whose cast of checkpoint_number keeps the lowest bit only
save_narrowing_cast(rows, task_name, checkpoint_number, db_ok) ==
    IF ~db_ok THEN [ok |-> FALSE, rows |-> rows]
    ELSE [ok |-> TRUE,
          rows |-> {r \in rows : r.task_id # task_name}
                     \cup {[task_id |-> task_name,
                            sequence_number |-> checkpoint_number % 2]}]

\* save: insert_into(last_checkpoint_sync).values(value).on_conflict(task_id)
\* .do_update().set(value); [ok, rows], db_ok = get_connection and the
\* statement succeed
save(rows, task_name, checkpoint_number, db_ok) ==
    IF ~db_ok THEN [ok |-> FALSE, rows |-> rows]
    ELSE [ok |-> TRUE,
          rows |-> {r \in rows : r.task_id # task_name}
                     \cup {[task_id |-> task_name,
                            sequence_number |-> AsI64(checkpoint_number)]}]

(***************************************************************************)
(* rest/routes/v1/mod.rs: fetch_stored_objects.                            *)
(***************************************************************************)
\* the expiration row joined to an object row: inner_join(... on id = object_id)
JoinedExp(db, row) ==
    {db.expiration_unlock_conditions[i] :
        i \in {j \in 1..Len(db.expiration_unlock_conditions) :
                 db.expiration_unlock_conditions[j].object_id = row.id}}

\* the resolved filter with the boundary on the owner's side
ResolvedFilterOwnerAtBoundary(e, address, checkpoint_unix_timestamp_ms) ==
    \/ e.owner = address /\ e.unix_time * 1000 >= checkpoint_unix_timestamp_ms
    \/ e.return_address = address /\ e.unix_time * 1000 < checkpoint_unix_timestamp_ms

\* the filter of the resolved query on one expiration row (lines 52-64)
ResolvedFilter(e, address, checkpoint_unix_timestamp_ms) ==
    \/ e.owner = address /\ e.unix_time * 1000 > checkpoint_unix_timestamp_ms
    \/ e.return_address = address /\ e.unix_time * 1000 <= checkpoint_unix_timestamp_ms

\* the filter of the raw query (lines 66-70)
RawFilter(e, address) ==
    e.owner = address \/ e.return_address = address

\* base_query after its filters: the object rows, in rowid order, that join an
\* expiration row, have the requested type and pass the address filter
BaseQuery(db, now, address, object_type_filter, resolve_expiration_uc) ==
    SelectSeq(db.objects,
              LAMBDA row :
                /\ row.object_type = object_type_filter
                /\ \E e \in JoinedExp(db, row) :
                      IF resolve_expiration_uc
                      THEN ResolvedFilter(e, address, now)
                      ELSE RawFilter(e, address))

\* the modulus of the u32 of page and page_size (2^32 in the code; the model
\* computes in a narrower word so that the requests below reach the wrap)
U32 == 16

\* let offset = (page - 1) * page_size, in u32: the offset, or none when the
\* build checks overflow and the subtraction or the multiplication overflows
\* (the handler panics); without overflow checks the result wraps
Offset(page, page_size, overflow_checks) ==
    LET fits == page >= 1 /\ (page - 1) * page_size < U32
    IN  IF fits THEN {(page - 1) * page_size}
        ELSE IF overflow_checks THEN {}
        ELSE {(((page - 1 + U32) % U32) * page_size) % U32}

\* .limit(page_size).offset(offset)
LimitOffset(rows, limit, offset) ==
    SubSeq(rows, offset + 1, IF offset + limit < Len(rows) THEN offset + limit ELSE Len(rows))

\* fetch_stored_objects reading an unset clock cell as 0
fetch_stored_objects_unset_as_zero(db, clock, conn_ok, address, page, page_size, object_type_filter, resolve_expiration_uc, overflow_checks) ==
    IF ~conn_ok THEN [status |-> "ServiceUnavailable", objects |-> << >>]
    ELSE LET now == IF resolve_expiration_uc /\ clock # {}
                    THEN AsI64(CHOOSE t \in clock : TRUE) ELSE 0
             p   == IF page = {} THEN 1 ELSE CHOOSE x \in page : TRUE
             ps  == IF page_size = {} THEN 10 ELSE CHOOSE x \in page_size : TRUE
             offset == Offset(p, ps, overflow_checks)
         IN  IF offset = {} THEN [status |-> "Panic", objects |-> << >>]
             ELSE [status |-> "Ok",
                   objects |-> LimitOffset(
                       BaseQuery(db, now, address, object_type_filter, resolve_expiration_uc),
                       ps, CHOOSE o \in offset : TRUE)]

\* fetch_stored_objects: [status, objects]; clock is the OnceLock, page and
\* page_size are the optional query parameters, conn_ok says whether the pool
\* hands out a connection, overflow_checks whether the build panics on
\* arithmetic overflow; status "Panic" is the handler's panic
fetch_stored_objects(db, clock, conn_ok, address, page, page_size, object_type_filter, resolve_expiration_uc, overflow_checks) ==
    IF ~conn_ok THEN [status |-> "ServiceUnavailable", objects |-> << >>]
    ELSE IF resolve_expiration_uc /\ clock = {}
    THEN [status |-> "ServiceUnavailable", objects |-> << >>]
    ELSE LET now == IF resolve_expiration_uc
                    THEN AsI64(CHOOSE t \in clock : TRUE) ELSE 0
             p   == IF page = {} THEN 1 ELSE CHOOSE x \in page : TRUE
             ps  == IF page_size = {} THEN 10 ELSE CHOOSE x \in page_size : TRUE
             offset == Offset(p, ps, overflow_checks)
         IN  IF offset = {} THEN [status |-> "Panic", objects |-> << >>]
             ELSE [status |-> "Ok",
                   objects |-> LimitOffset(
                       BaseQuery(db, now, address, object_type_filter, resolve_expiration_uc),
                       ps, CHOOSE o \in offset : TRUE)]

(***************************************************************************)
(* rest/routes/v1/basic.rs and nft.rs: the handlers of GET /v1/basic/:address *)
(* and GET /v1/nft/:address.                                               *)
(***************************************************************************)
\* BasicOutput::try_from(StoredObject) / NftOutput::try_from(StoredObject): the
\* decoded output, an error for a row of the other object_type
OutputTryFrom(variant, so) ==
    IF so.object_type = variant THEN {so} ELSE {}

\* the query of both handlers: the object rows, in rowid order, that join an
\* expiration row with the address as owner or return address - of any
\* object_type
AddressQuery(db, address) ==
    SelectSeq(db.objects,
              LAMBDA row : \E e \in JoinedExp(db, row) : RawFilter(e, address))

RECURSIVE FilterMapDecode(_, _)
\* stored_objects.into_iter().filter_map(|so| Output::try_from(so).ok())
FilterMapDecode(variant, rows) ==
    IF rows = << >> THEN << >>
    ELSE (IF OutputTryFrom(variant, Head(rows)) # {} THEN << Head(rows) >> ELSE << >>)
         \o FilterMapDecode(variant, Tail(rows))

\* the body the two handlers share: connection, pagination defaults, offset,
\* the query with limit and offset, then the decoding of the loaded rows
RawByAddress(db, conn_ok, address, page, page_size, variant, overflow_checks) ==
    IF ~conn_ok THEN [status |-> "ServiceUnavailable", objects |-> << >>]
    ELSE LET p   == IF page = {} THEN 1 ELSE CHOOSE x \in page : TRUE
             ps  == IF page_size = {} THEN 10 ELSE CHOOSE x \in page_size : TRUE
             offset == Offset(p, ps, overflow_checks)
         IN  IF offset = {} THEN [status |-> "Panic", objects |-> << >>]
             ELSE [status |-> "Ok",
                   objects |-> FilterMapDecode(variant,
                                  LimitOffset(AddressQuery(db, address), ps,
                                              CHOOSE o \in offset : TRUE))]

\* GET /v1/basic/:address
basic(db, conn_ok, address, page, page_size, overflow_checks) ==
    RawByAddress(db, conn_ok, address, page, page_size, "Basic", overflow_checks)

\* GET /v1/nft/:address
nft(db, conn_ok, address, page, page_size, overflow_checks) ==
    RawByAddress(db, conn_ok, address, page, page_size, "Nft", overflow_checks)

\* the router: the raw routes go to basic and nft, the resolved routes call
\* fetch_stored_objects with resolve_expiration_uc = true
Route(db, clock, conn_ok, address, page, page_size, variant, resolved, overflow_checks) ==
    IF resolved
    THEN fetch_stored_objects(db, clock, conn_ok, address, page, page_size, variant, TRUE, overflow_checks)
    ELSE IF variant = "Basic"
    THEN basic(db, conn_ok, address, page, page_size, overflow_checks)
    ELSE nft(db, conn_ok, address, page, page_size, overflow_checks)

(***************************************************************************)
(* State.                                                                  *)
(***************************************************************************)
VARIABLES
    chain,                          \* the checkpoints of the remote store
    objects,                        \* table objects
    expiration_unlock_conditions,   \* table expiration_unlock_conditions
    last_checkpoint_sync,           \* table last_checkpoint_sync
    LATEST_CHECKPOINT_UNIX_TIMESTAMP_MS,    \* OnceLock<AtomicU64>
    METRICS,                        \* the gauges and counters
    indexer_config,                 \* IndexerConfig of the run
    executor,                       \* the IndexerExecutor and its reader
    workers,                        \* the checkpoints the pool is processing
    history,                        \* what has happened, for the properties
    response,                       \* the HTTP response a step sends, if any
    process                         \* the main task, the signal task and the exit code

vars == << chain, indexer_config, objects, expiration_unlock_conditions, last_checkpoint_sync,
           LATEST_CHECKPOINT_UNIX_TIMESTAMP_MS, METRICS, executor, workers,
           history, response, process >>

CurrentDb == Db(objects, expiration_unlock_conditions)

ZeroMetrics ==
    [last_checkpoint_checked |-> 0, last_checkpoint_indexed |-> 0,
     indexed_basic_outputs_count |-> 0, indexed_nft_outputs_count |-> 0]

NoWorkers == [s \in {} |-> 0]

NoResponse == {}

\* the process after run_indexer has spawned the indexer, the signal task and
\* the REST server: reset_db is the --reset-db flag it was started with, signal
\* whether CTRL+C has arrived, joined the result of Indexer::graceful_shutdown
\* in the signal task, rest the state of the REST server and whether its error
\* reaches run_indexer, exit the exit code once main has returned, health the
\* position of the /health handler in flight with the counts it has read,
\* prometheus the state of the metrics server of spawn_prometheus_server and
\* prometheus_joined whether the signal task has awaited its handle
ProcessStarted ==
    [reset_db |-> FALSE, signal |-> FALSE, joined |-> {}, rest |-> "Serving",
     rest_err |-> FALSE, exit |-> {}, health |-> {},
     prometheus |-> "Serving", prometheus_joined |-> FALSE]

\* history: saved = the save calls of this run, returned_ok = the checkpoints
\* whose process_checkpoint returned Ok in this run, earlier_ok = those whose
\* process_checkpoint returned Ok in an earlier run of the process
NewRun(h) ==
    [saved |-> {}, returned_ok |-> {}, earlier_ok |-> h.earlier_ok \cup h.returned_ok]

Init ==
    /\ chain \in [1..MaxSeq -> TxPool]
    /\ indexer_config \in [download_queue_size : {1, 2}]
    /\ objects = << >>
    /\ expiration_unlock_conditions = << >>
    /\ last_checkpoint_sync = {}
    /\ LATEST_CHECKPOINT_UNIX_TIMESTAMP_MS = {}
    /\ METRICS = ZeroMetrics
    /\ executor = [state |-> "Idle", next |-> 0, acked |-> 0]
    /\ workers = NoWorkers
    /\ history = [saved |-> {}, returned_ok |-> {}, earlier_ok |-> {}]
    /\ response = NoResponse
    /\ process = ProcessStarted

(***************************************************************************)
(* The executor (IndexerExecutor::run with the WorkerPool "primary" that   *)
(* Indexer::init registers, concurrency = download_queue_size).            *)
(***************************************************************************)
\* the checkpoints that occupy a worker of the pool: a worker that has returned
\* Ok is free again, one that has returned an error takes no further checkpoint
Active == {s \in DOMAIN workers : workers[s].pc # "ok"}

\* an executor that starts its reader at checkpoint 1 whatever the progress
\* store holds
ExecutorStartFromOne ==
    /\ process.exit = {}
    /\ executor.state = "Idle"
    /\ executor' = [state |-> "Running", next |-> 1,
                    acked |-> load(last_checkpoint_sync, "primary")]
    /\ response' = NoResponse
    /\ UNCHANGED << process, chain, indexer_config, objects, expiration_unlock_conditions, last_checkpoint_sync,
                    LATEST_CHECKPOINT_UNIX_TIMESTAMP_MS, METRICS, workers,
                    history >>

\* run starts: load(task) and the reader starts after the loaded checkpoint
ExecutorStart ==
    /\ process.exit = {}
    /\ executor.state = "Idle"
    /\ LET last_seq == load(last_checkpoint_sync, "primary")
       IN  executor' = [state |-> "Running", next |-> last_seq + 1, acked |-> last_seq]
    /\ response' = NoResponse
    /\ UNCHANGED << process, chain, indexer_config, objects, expiration_unlock_conditions, last_checkpoint_sync,
                    LATEST_CHECKPOINT_UNIX_TIMESTAMP_MS, METRICS, workers,
                    history >>

\* the next checkpoint of the reader is handed to a free worker of the pool
Dispatch ==
    /\ process.exit = {}
    /\ executor.state = "Running"
    /\ executor.next <= MaxSeq
    /\ Cardinality(Active) < indexer_config.download_queue_size
    /\ workers' = [s \in DOMAIN workers \cup {executor.next} |->
                     IF s = executor.next
                     THEN [pc |-> "new", created |-> << >>, deleted |-> << >>,
                           wrote |-> FALSE]
                     ELSE workers[s]]
    /\ executor' = [executor EXCEPT !.next = @ + 1]
    /\ response' = NoResponse
    /\ UNCHANGED << process, chain, indexer_config, objects, expiration_unlock_conditions, last_checkpoint_sync,
                    LATEST_CHECKPOINT_UNIX_TIMESTAMP_MS, METRICS, history >>

(***************************************************************************)
(* CheckpointWorker::process_checkpoint, one step per database statement.  *)
(***************************************************************************)
\* where process_checkpoint continues with the batches that are left
Continue(created, deleted) ==
    IF created # << >> THEN "insert"
    ELSE IF deleted # << >> THEN "delete"
    ELSE "ok"

\* the worker s moves to pc p; on "ok" process_checkpoint sets
\* last_checkpoint_indexed and returns Ok(())
Returned(h, s, p) ==
    IF p = "ok"
    THEN [h EXCEPT !.returned_ok = @ \cup {s}]
    ELSE h

\* a worker that sets last_checkpoint_indexed at every step of its
\* checkpoint
IndexedAtEveryStep(m, s, p) ==
    [m EXCEPT !.last_checkpoint_indexed = s]

Indexed(m, s, p) ==
    IF p = "ok" THEN [m EXCEPT !.last_checkpoint_indexed = s] ELSE m

\* lines 123-152: the gauge, the batches, LATEST...get_or_init(|| 0)
WorkerBegin(s) ==
    /\ process.exit = {}
    /\ s \in DOMAIN workers
    /\ workers[s].pc = "new"
    /\ LET created == CreatedObjects(chain[s])
           deleted == DeletedAddresses(chain[s])
           p == IF LATEST_CHECKPOINT_UNIX_TIMESTAMP_MS = {}
                THEN "store" ELSE Continue(created, deleted)
       IN  /\ workers' = [workers EXCEPT ![s] =
                            [@ EXCEPT !.pc = p, !.created = created, !.deleted = deleted]]
           /\ LATEST_CHECKPOINT_UNIX_TIMESTAMP_MS' =
                  IF LATEST_CHECKPOINT_UNIX_TIMESTAMP_MS = {}
                  THEN {0} ELSE {TimestampOf(s)}
           /\ METRICS' = Indexed([METRICS EXCEPT !.last_checkpoint_checked = s], s, p)
           /\ history' = Returned(history, s, p)
    /\ response' = NoResponse
    /\ UNCHANGED << process, chain, indexer_config, objects, expiration_unlock_conditions, last_checkpoint_sync,
                    executor >>

\* line 152: .store(checkpoint_timestamp) on the cell this worker initialised
WorkerStore(s) ==
    /\ process.exit = {}
    /\ s \in DOMAIN workers
    /\ workers[s].pc = "store"
    /\ LET p == Continue(workers[s].created, workers[s].deleted)
       IN  /\ workers' = [workers EXCEPT ![s].pc = p]
           /\ METRICS' = Indexed(METRICS, s, p)
           /\ history' = Returned(history, s, p)
    /\ LATEST_CHECKPOINT_UNIX_TIMESTAMP_MS' = {TimestampOf(s)}
    /\ response' = NoResponse
    /\ UNCHANGED << process, chain, indexer_config, objects, expiration_unlock_conditions, last_checkpoint_sync,
                    executor >>

Counted(m, so) ==
    IF so.object_type = "Basic"
    THEN [m EXCEPT !.indexed_basic_outputs_count = @ + 1]
    ELSE [m EXCEPT !.indexed_nft_outputs_count = @ + 1]

\* one iteration of multi_insert_as_database_transactions commits
WorkerInsert(s) ==
    /\ process.exit = {}
    /\ s \in DOMAIN workers
    /\ workers[s].pc = "insert"
    /\ LET so == Head(workers[s].created)
           r  == InsertTransaction(CurrentDb, so)
           p  == Continue(Tail(workers[s].created), workers[s].deleted)
       IN  /\ r.ok
           /\ objects' = r.db.objects
           /\ expiration_unlock_conditions' = r.db.expiration_unlock_conditions
           /\ workers' = [workers EXCEPT ![s] =
                            [@ EXCEPT !.pc = p, !.created = Tail(@), !.wrote = TRUE]]
           /\ METRICS' = Indexed(Counted(METRICS, so), s, p)
           /\ history' = Returned(history, s, p)
    /\ response' = NoResponse
    /\ UNCHANGED << process, chain, indexer_config, last_checkpoint_sync, LATEST_CHECKPOINT_UNIX_TIMESTAMP_MS,
                    executor >>

\* one iteration ends with the error of ExpirationUnlockCondition::try_from:
\* the ? leaves the closure, the upsert of the object is rolled back and
\* process_checkpoint returns the error
WorkerInsertRejects(s) ==
    /\ process.exit = {}
    /\ s \in DOMAIN workers
    /\ workers[s].pc = "insert"
    /\ ~InsertTransaction(CurrentDb, Head(workers[s].created)).ok
    /\ workers' = [workers EXCEPT ![s].pc = "err"]
    /\ response' = NoResponse
    /\ UNCHANGED << process, chain, indexer_config, objects, expiration_unlock_conditions, last_checkpoint_sync,
                    LATEST_CHECKPOINT_UNIX_TIMESTAMP_MS, METRICS, executor, history >>

\* one iteration fails before the closure has counted the object and is
\* rolled back: get_connection or a statement fails, or try_from returns an
\* error
WorkerInsertFails(s) ==
    /\ process.exit = {}
    /\ s \in DOMAIN workers
    /\ workers[s].pc = "insert"
    /\ workers' = [workers EXCEPT ![s].pc = "err"]
    /\ response' = NoResponse
    /\ UNCHANGED << process, chain, indexer_config, objects, expiration_unlock_conditions, last_checkpoint_sync,
                    LATEST_CHECKPOINT_UNIX_TIMESTAMP_MS, METRICS, executor, history >>

\* one iteration fails at its commit: the closure has run to its end and has
\* incremented the counter, the writes are rolled back
WorkerCommitFails(s) ==
    /\ process.exit = {}
    /\ s \in DOMAIN workers
    /\ workers[s].pc = "insert"
    /\ LET so == Head(workers[s].created)
       IN  /\ InsertTransaction(CurrentDb, so).ok
           /\ METRICS' = Counted(METRICS, so)
    /\ workers' = [workers EXCEPT ![s].pc = "err"]
    /\ response' = NoResponse
    /\ UNCHANGED << process, chain, indexer_config, objects, expiration_unlock_conditions, last_checkpoint_sync,
                    LATEST_CHECKPOINT_UNIX_TIMESTAMP_MS, executor, history >>

\* a process_checkpoint that returns Ok(()) without running delete_objects
WorkerDeleteSkipped(s) ==
    /\ process.exit = {}
    /\ s \in DOMAIN workers
    /\ workers[s].pc = "delete"
    /\ workers' = [workers EXCEPT ![s] =
                     [@ EXCEPT !.pc = "ok", !.deleted = << >>, !.wrote = TRUE]]
    /\ METRICS' = Indexed(METRICS, s, "ok")
    /\ history' = Returned(history, s, "ok")
    /\ response' = NoResponse
    /\ UNCHANGED << process, chain, indexer_config, objects, expiration_unlock_conditions,
                    last_checkpoint_sync, LATEST_CHECKPOINT_UNIX_TIMESTAMP_MS, executor >>

\* a process_checkpoint that has run delete_objects before the inserts: the
\* objects it both removes and creates are stored again after the delete
WorkerDeleteBeforeInsert(s) ==
    /\ process.exit = {}
    /\ s \in DOMAIN workers
    /\ workers[s].pc = "delete"
    /\ LET deleted == workers[s].deleted
           d == delete_objects(CurrentDb, deleted)
           again == SelectSeq(CreatedObjects(chain[s]),
                              LAMBDA so : \E k \in 1..Len(deleted) : deleted[k] = so.id)
           r == MultiInsert(d, again)
       IN  /\ objects' = r.db.objects
           /\ expiration_unlock_conditions' = r.db.expiration_unlock_conditions
    /\ workers' = [workers EXCEPT ![s] =
                     [@ EXCEPT !.pc = "ok", !.deleted = << >>, !.wrote = TRUE]]
    /\ METRICS' = Indexed(METRICS, s, "ok")
    /\ history' = Returned(history, s, "ok")
    /\ response' = NoResponse
    /\ UNCHANGED << process, chain, indexer_config, last_checkpoint_sync, LATEST_CHECKPOINT_UNIX_TIMESTAMP_MS,
                    executor >>

\* delete_objects succeeds, process_checkpoint returns Ok(())
WorkerDelete(s) ==
    /\ process.exit = {}
    /\ s \in DOMAIN workers
    /\ workers[s].pc = "delete"
    /\ LET d == delete_objects(CurrentDb, workers[s].deleted)
       IN  /\ objects' = d.objects
           /\ expiration_unlock_conditions' = d.expiration_unlock_conditions
    /\ workers' = [workers EXCEPT ![s] =
                     [@ EXCEPT !.pc = "ok", !.deleted = << >>, !.wrote = TRUE]]
    /\ METRICS' = Indexed(METRICS, s, "ok")
    /\ history' = Returned(history, s, "ok")
    /\ response' = NoResponse
    /\ UNCHANGED << process, chain, indexer_config, last_checkpoint_sync, LATEST_CHECKPOINT_UNIX_TIMESTAMP_MS,
                    executor >>

\* delete_objects fails: get_connection or the statement
WorkerDeleteFails(s) ==
    /\ process.exit = {}
    /\ s \in DOMAIN workers
    /\ workers[s].pc = "delete"
    /\ workers' = [workers EXCEPT ![s].pc = "err"]
    /\ response' = NoResponse
    /\ UNCHANGED << process, chain, indexer_config, objects, expiration_unlock_conditions, last_checkpoint_sync,
                    LATEST_CHECKPOINT_UNIX_TIMESTAMP_MS, METRICS, executor,
                    history >>

(***************************************************************************)
(* The executor's progress handling, shutdown and restart.                 *)
(***************************************************************************)
\* an executor that acknowledges the next checkpoint in sequence order whatever
\* has become of its process_checkpoint
MayAcknowledgeUnfinished(s) ==
    /\ executor.state = "Running"
    /\ s = executor.acked + 1
    /\ s \in DOMAIN workers

\* the executor acknowledges in sequence order: the checkpoint after the last
\* acknowledged one, once its process_checkpoint has returned Ok
MayAcknowledge(s) ==
    /\ executor.state = "Running"
    /\ s = executor.acked + 1
    /\ s \in DOMAIN workers
    /\ workers[s].pc = "ok"

\* the executor calls save(task, seq) and the gauge follows; when save returns
\* an error the run ends with it and the checkpoint stays unacknowledged
Acknowledge(db_ok) ==
    \E s \in 1..MaxSeq :
        /\ process.exit = {}
        /\ MayAcknowledge(s)
        /\ LET r == save(last_checkpoint_sync, "primary", s, db_ok)
           IN  /\ last_checkpoint_sync' = r.rows
               /\ METRICS' = IF r.ok THEN [METRICS EXCEPT !.last_checkpoint_checked = s]
                             ELSE METRICS
               /\ executor' = IF r.ok THEN [executor EXCEPT !.acked = s]
                              ELSE [executor EXCEPT !.state = "Failed"]
               /\ workers' = IF r.ok THEN [t \in DOMAIN workers \ {s} |-> workers[t]]
                             ELSE workers
        /\ history' = [history EXCEPT !.saved = @ \cup {s}]
        /\ response' = NoResponse
        /\ UNCHANGED << process, chain, indexer_config, objects, expiration_unlock_conditions,
                        LATEST_CHECKPOINT_UNIX_TIMESTAMP_MS >>

\* a worker's error that also cancels the token of the REST server
WorkerErrorCancelsToken ==
    /\ process.exit = {}
    /\ executor.state = "Running"
    /\ \E s \in DOMAIN workers : workers[s].pc = "err"
    /\ executor' = [executor EXCEPT !.state = "Failed"]
    /\ process' = [process EXCEPT !.rest = "Stopped"]
    /\ response' = NoResponse
    /\ UNCHANGED << chain, indexer_config, objects, expiration_unlock_conditions, last_checkpoint_sync,
                    LATEST_CHECKPOINT_UNIX_TIMESTAMP_MS, METRICS, workers,
                    history >>

\* a worker returned an error: the run ends with the error
WorkerErrorEndsRun ==
    /\ process.exit = {}
    /\ executor.state = "Running"
    /\ \E s \in DOMAIN workers : workers[s].pc = "err"
    /\ executor' = [executor EXCEPT !.state = "Failed"]
    /\ response' = NoResponse
    /\ UNCHANGED << process, chain, indexer_config, objects, expiration_unlock_conditions, last_checkpoint_sync,
                    LATEST_CHECKPOINT_UNIX_TIMESTAMP_MS, METRICS, workers,
                    history >>

\* Indexer::graceful_shutdown: shutdown_tx.send(()) ends the executor's loop
GracefulShutdown ==
    /\ process.exit = {}
    /\ executor.state = "Running"
    /\ executor' = [executor EXCEPT !.state = "Stopped"]
    /\ response' = NoResponse
    /\ UNCHANGED << process, chain, indexer_config, objects, expiration_unlock_conditions, last_checkpoint_sync,
                    LATEST_CHECKPOINT_UNIX_TIMESTAMP_MS, METRICS, workers,
                    history >>

\* a restart after which the clock cell still holds its last value
RestartKeepingClock ==
    /\ executor' = [state |-> "Idle", next |-> 0, acked |-> 0]
    /\ workers' = NoWorkers
    /\ METRICS' = ZeroMetrics
    /\ history' = NewRun(history)
    /\ response' = NoResponse
    /\ process' = ProcessStarted
    /\ UNCHANGED << chain, indexer_config, objects, expiration_unlock_conditions,
                    last_checkpoint_sync, LATEST_CHECKPOINT_UNIX_TIMESTAMP_MS >>

\* the process dies (or exits) at any point and is started again on the same
\* databases: everything in memory is lost, the tables are kept
Restart ==
    /\ executor' = [state |-> "Idle", next |-> 0, acked |-> 0]
    /\ workers' = NoWorkers
    /\ LATEST_CHECKPOINT_UNIX_TIMESTAMP_MS' = {}
    /\ METRICS' = ZeroMetrics
    /\ history' = NewRun(history)
    /\ response' = NoResponse
    /\ process' = ProcessStarted
    /\ UNCHANGED << chain, indexer_config, objects, expiration_unlock_conditions, last_checkpoint_sync >>

(***************************************************************************)
(* The REST API: GET /v1/{basic,nft}/{address} and                         *)
(* GET /v1/{basic,nft}/resolved/{address}.                                 *)
(***************************************************************************)
\* the addresses a client asks for ("C" owns nothing)
RequestAddrs == Addrs \cup {"C"}

HttpGetPage(address, object_type_filter, resolve_expiration_uc, conn_ok, page, page_size, overflow_checks) ==
    /\ process.exit = {}
    /\ process.rest = "Serving"
    /\ response = NoResponse
    /\ response' =
         {[address |-> address, object_type |-> object_type_filter,
           resolved |-> resolve_expiration_uc, conn_ok |-> conn_ok,
           page |-> page, page_size |-> page_size,
           overflow_checks |-> overflow_checks,
           result |-> Route(CurrentDb, LATEST_CHECKPOINT_UNIX_TIMESTAMP_MS, conn_ok,
                            address, page, page_size, object_type_filter,
                            resolve_expiration_uc, overflow_checks)]}
    /\ UNCHANGED << process, chain, indexer_config, objects, expiration_unlock_conditions,
                    last_checkpoint_sync, LATEST_CHECKPOINT_UNIX_TIMESTAMP_MS, METRICS,
                    executor, workers, history >>

\* a request without pagination parameters
HttpGet(address, object_type_filter, resolve_expiration_uc, conn_ok) ==
    HttpGetPage(address, object_type_filter, resolve_expiration_uc, conn_ok, {}, {}, TRUE)

Next ==
    \/ ExecutorStart
    \/ Dispatch
    \/ \E s \in 1..MaxSeq : WorkerBegin(s)
    \/ \E s \in 1..MaxSeq : WorkerStore(s)
    \/ \E s \in 1..MaxSeq : WorkerInsert(s)
    \/ \E s \in 1..MaxSeq : WorkerInsertRejects(s)
    \/ \E s \in 1..MaxSeq : WorkerInsertFails(s)
    \/ \E s \in 1..MaxSeq : WorkerDelete(s)
    \/ \E s \in 1..MaxSeq : WorkerDeleteFails(s)
    \/ \E db_ok \in BOOLEAN : Acknowledge(db_ok)
    \/ WorkerErrorEndsRun
    \/ GracefulShutdown
    \/ Restart

Spec == Init /\ [][Next]_vars

\* the same with the commit of a per-object transaction failing as well
NextCommit ==
    \/ Next
    \/ \E s \in 1..MaxSeq : WorkerCommitFails(s)

SpecCommit == Init /\ [][NextCommit]_vars

(***************************************************************************)
(* The supervisor: run_indexer, the signal task of setup_shutdown_signal   *)
(* and the exit of the process.                                            *)
(***************************************************************************)
\* the executor task has ended and no process_checkpoint call is in flight
ExecutorTerminated ==
    /\ executor.state \in {"Stopped", "Failed"}
    /\ \A s \in DOMAIN workers : workers[s].pc \in {"ok", "err"}

\* the signal task: ctrl_c() returns, the token is cancelled and
\* Indexer::graceful_shutdown sends on shutdown_tx, which ends the executor's
\* loop; the task then awaits the executor's handle
CtrlC ==
    /\ process.exit = {}
    /\ ~process.signal
    /\ process' = [process EXCEPT !.signal = TRUE]
    /\ executor' = IF executor.state \in {"Idle", "Running"}
                   THEN [executor EXCEPT !.state = "Stopped"] ELSE executor
    /\ response' = NoResponse
    /\ UNCHANGED << chain, indexer_config, objects, expiration_unlock_conditions,
                    last_checkpoint_sync, LATEST_CHECKPOINT_UNIX_TIMESTAMP_MS, METRICS,
                    workers, history >>

\* the signal task gets the result of the executor's handle (self.handle.await?):
\* the value the task ends with is dropped with its JoinHandle
SignalTaskJoins ==
    /\ process.exit = {}
    /\ process.signal
    /\ process.joined = {}
    /\ ExecutorTerminated
    /\ process' = [process EXCEPT
                     !.joined = {IF executor.state = "Failed" THEN "Err" ELSE "Ok"}]
    /\ response' = NoResponse
    /\ UNCHANGED << chain, indexer_config, objects, expiration_unlock_conditions,
                    last_checkpoint_sync, LATEST_CHECKPOINT_UNIX_TIMESTAMP_MS, METRICS,
                    executor, workers, history >>

\* axum::serve(..).with_graceful_shutdown(token.cancelled()) returns after the
\* token has been cancelled
RestServerStops ==
    /\ process.exit = {}
    /\ process.signal
    /\ process.rest = "Serving"
    /\ process' = [process EXCEPT !.rest = "Stopped"]
    /\ response' = NoResponse
    /\ UNCHANGED << chain, indexer_config, objects, expiration_unlock_conditions,
                    last_checkpoint_sync, LATEST_CHECKPOINT_UNIX_TIMESTAMP_MS, METRICS,
                    executor, workers, history >>

\* the REST server ends with an error: run_indexer propagates the error of
\* spawn_rest_server with ?, while spawn_rest_server's task logs the error of
\* axum::serve and drops it (.ok()) - reported says which of the two the
\* build does
RestServerFails(reported) ==
    /\ process.exit = {}
    /\ process.rest = "Serving"
    /\ process' = [process EXCEPT !.rest = "Failed", !.rest_err = reported]
    /\ response' = NoResponse
    /\ UNCHANGED << chain, indexer_config, objects, expiration_unlock_conditions,
                    last_checkpoint_sync, LATEST_CHECKPOINT_UNIX_TIMESTAMP_MS, METRICS,
                    executor, workers, history >>

\* run_indexer returns once spawn_rest_server(..).await has, and main with it:
\* Ok(()) is exit code 0, an Err of the REST server exit code 1; the runtime
\* is dropped and with it the signal task, the executor and its workers
MainReturns ==
    /\ process.exit = {}
    /\ process.rest \in {"Stopped", "Failed"}
    /\ process' = [process EXCEPT
                     !.exit = {IF process.rest = "Failed" /\ process.rest_err THEN 1 ELSE 0}]
    /\ response' = NoResponse
    /\ UNCHANGED << chain, indexer_config, objects, expiration_unlock_conditions,
                    last_checkpoint_sync, LATEST_CHECKPOINT_UNIX_TIMESTAMP_MS, METRICS,
                    executor, workers, history >>

\* reset_database: revert_all_migrations on the pool of the objects database
\* and on the pool of the progress store; run_migrations then creates the
\* tables again, empty
reset_database(db, rows) ==
    [db |-> EmptyDb, rows |-> {}]

\* the process is started again with --reset-db
RestartResetDb ==
    /\ LET r == reset_database(CurrentDb, last_checkpoint_sync)
       IN  /\ objects' = r.db.objects
           /\ expiration_unlock_conditions' = r.db.expiration_unlock_conditions
           /\ last_checkpoint_sync' = r.rows
    /\ executor' = [state |-> "Idle", next |-> 0, acked |-> 0]
    /\ workers' = NoWorkers
    /\ LATEST_CHECKPOINT_UNIX_TIMESTAMP_MS' = {}
    /\ METRICS' = ZeroMetrics
    /\ history' = [saved |-> {}, returned_ok |-> {}, earlier_ok |-> {}]
    /\ response' = NoResponse
    /\ process' = [ProcessStarted EXCEPT !.reset_db = TRUE]
    /\ UNCHANGED << chain, indexer_config >>

\* the whole process with one worker: the indexer with its database errors,
\* the REST server, the signal and the exit
NextMain ==
    \/ ExecutorStart
    \/ Dispatch
    \/ \E s \in 1..MaxSeq : WorkerBegin(s)
    \/ \E s \in 1..MaxSeq : WorkerStore(s)
    \/ \E s \in 1..MaxSeq : WorkerInsert(s)
    \/ \E s \in 1..MaxSeq : WorkerInsertRejects(s)
    \/ \E s \in 1..MaxSeq : WorkerInsertFails(s)
    \/ \E s \in 1..MaxSeq : WorkerDelete(s)
    \/ \E s \in 1..MaxSeq : WorkerDeleteFails(s)
    \/ \E db_ok \in BOOLEAN : Acknowledge(db_ok)
    \/ WorkerErrorEndsRun
    \/ CtrlC
    \/ SignalTaskJoins
    \/ RestServerStops
    \/ \E reported \in BOOLEAN : RestServerFails(reported)
    \/ MainReturns
    \/ Restart
    \/ RestartResetDb
    \/ HttpGet("A", "Basic", FALSE, TRUE)

InitMain == Init /\ indexer_config.download_queue_size = 1

SpecMain == InitMain /\ [][NextMain]_vars

\* the indexer with one worker, no database error and no shutdown, and the
\* REST API serving requests
InitRest == Init /\ indexer_config.download_queue_size = 1

NextRest ==
    \/ ExecutorStart
    \/ Dispatch
    \/ \E s \in 1..MaxSeq : WorkerBegin(s)
    \/ \E s \in 1..MaxSeq : WorkerStore(s)
    \/ \E s \in 1..MaxSeq : WorkerInsert(s)
    \/ \E s \in 1..MaxSeq : WorkerInsertRejects(s)
    \/ \E s \in 1..MaxSeq : WorkerDelete(s)
    \/ Acknowledge(TRUE)
    \/ Restart
    \/ \E address \in RequestAddrs, t \in {"Basic", "Nft"}, r \in BOOLEAN, c \in BOOLEAN :
          HttpGet(address, t, r, c)

SpecRest == InitRest /\ [][NextRest]_vars

(***************************************************************************)
(* The worker on transactions that differ in what could decide the         *)
(* originating-package filter: the genesis flag, the package among the     *)
(* declared inputs, and the address of the outputs' struct tags.           *)
(***************************************************************************)
\* an object with the address of its struct tag: "pkg" is the configured
\* package id, "foreign" any other address
ObjAt(i, sh, tag_address, tag, c) ==
    [id |-> i, shared |-> sh, tag_address |-> tag_address, tag |-> tag, contents |-> c]

FilterPool ==
    { \* a genesis transaction: no package among the inputs
      << Tx(TRUE, FALSE,
            << ObjAt(1, TRUE, "foreign", "basic", Contents(1, Exp("A", "B", 1))) >>, << >>) >>,
      \* the package among the inputs with an output of a foreign struct tag
      \* address, then a transaction without the package whose output has the
      \* package as struct tag address
      << Tx(FALSE, TRUE,
            << ObjAt(2, TRUE, "foreign", "nft", Contents(2, Exp("A", "B", 1))) >>, << >>),
         Tx(FALSE, FALSE,
            << ObjAt(3, TRUE, "pkg", "basic", Contents(3, Exp("B", "A", 2))) >>, << >>) >>,
      \* outputs of the package in a transaction that is neither, and an output
      \* of the package and of no known variant in one that has the package
      << Tx(FALSE, FALSE,
            << ObjAt(4, TRUE, "pkg", "nft", Contents(4, Exp("A", "B", 2))),
               ObjAt(1, FALSE, "pkg", "basic", Contents(5, Exp("A", "B", 2))) >>, << >>),
         Tx(FALSE, TRUE,
            << ObjAt(2, TRUE, "pkg", "other", Contents(6, Exp("A", "B", 2))),
               ObjAt(3, TRUE, "pkg", "basic", Contents(7, Exp("A", "A", 1))) >>,
            \* object 1 is removed and not created again
            << Rem(1, TRUE), Rem(2, FALSE) >>) >>,
      \* object 1 is created and removed by a later transaction, object 3 is
      \* removed and created by a later transaction
      << Tx(FALSE, TRUE,
            << ObjAt(1, TRUE, "pkg", "basic", Contents(8, Exp("A", "B", 1))) >>, << >>),
         Tx(FALSE, TRUE, << >>, << Rem(1, TRUE), Rem(3, TRUE) >>),
         Tx(FALSE, TRUE,
            << ObjAt(3, TRUE, "pkg", "nft", Contents(9, Exp("B", "A", 2))) >>, << >>) >> }

InitFilter ==
    /\ chain \in [1..MaxSeq -> FilterPool]
    /\ indexer_config \in [download_queue_size : {1, 2}]
    /\ objects = << >>
    /\ expiration_unlock_conditions = << >>
    /\ last_checkpoint_sync = {}
    /\ LATEST_CHECKPOINT_UNIX_TIMESTAMP_MS = {}
    /\ METRICS = ZeroMetrics
    /\ executor = [state |-> "Idle", next |-> 0, acked |-> 0]
    /\ workers = NoWorkers
    /\ history = [saved |-> {}, returned_ok |-> {}, earlier_ok |-> {}]
    /\ response = NoResponse
    /\ process = ProcessStarted

NextFilter ==
    \/ ExecutorStart
    \/ Dispatch
    \/ \E s \in 1..MaxSeq : WorkerBegin(s)
    \/ \E s \in 1..MaxSeq : WorkerStore(s)
    \/ \E s \in 1..MaxSeq : WorkerInsert(s)
    \/ \E s \in 1..MaxSeq : WorkerDelete(s)
    \/ Acknowledge(TRUE)
    \/ Restart

SpecFilter == InitFilter /\ [][NextFilter]_vars

(***************************************************************************)
(* The progress store as functions of its table: save and load called for  *)
(* several tasks and for sequence numbers up to the end of the u64.       *)
(***************************************************************************)
TaskNames == {"primary", "secondary"}

\* checkpoint numbers below, at and above the sign bit of the i64
Checkpoints ==
    {0, 1, MaxSeq, I64SignBit - 1, I64SignBit, I64SignBit + 1,
     (I64SignBit - 1) + I64SignBit}

\* ProgressStore::save called by an executor for one of its tasks
ProgressSave(task_name, checkpoint_number, db_ok) ==
    /\ LET r == save(last_checkpoint_sync, task_name, checkpoint_number, db_ok)
       IN  /\ last_checkpoint_sync' = r.rows
           /\ METRICS' = IF r.ok
                         THEN [METRICS EXCEPT !.last_checkpoint_checked = AsI64(checkpoint_number)]
                         ELSE METRICS
    /\ response' = NoResponse
    /\ UNCHANGED << process, chain, indexer_config, objects, expiration_unlock_conditions,
                    LATEST_CHECKPOINT_UNIX_TIMESTAMP_MS, executor, workers, history >>

InitProgress ==
    /\ chain = [s \in 1..MaxSeq |-> CHOOSE c \in TxPool : TRUE]
    /\ indexer_config = [download_queue_size |-> 1]
    /\ objects = << >>
    /\ expiration_unlock_conditions = << >>
    /\ last_checkpoint_sync = {}
    /\ LATEST_CHECKPOINT_UNIX_TIMESTAMP_MS = {}
    /\ METRICS = ZeroMetrics
    /\ executor = [state |-> "Idle", next |-> 0, acked |-> 0]
    /\ workers = NoWorkers
    /\ history = [saved |-> {}, returned_ok |-> {}, earlier_ok |-> {}]
    /\ response = NoResponse
    /\ process = ProcessStarted

NextProgress ==
    \E task_name \in TaskNames, checkpoint_number \in Checkpoints, db_ok \in BOOLEAN :
        ProgressSave(task_name, checkpoint_number, db_ok)

SpecProgress == InitProgress /\ [][NextProgress]_vars

(***************************************************************************)
(* The REST handlers as functions of the database: a process started on a  *)
(* database that earlier runs have filled, serving paginated requests.     *)
(***************************************************************************)
\* the number of objects the earlier runs have stored
MaxRows == 3

\* the outputs an earlier checkpoint may have created under an id
PageOutputs(i) ==
    { Obj(i, TRUE, "basic", Contents(1, Exp("A", "B", 1))),
      Obj(i, TRUE, "nft",   Contents(1, Exp("A", "B", 1))),
      Obj(i, TRUE, "basic", Contents(1, Exp("B", "A", 2))),
      \* owner and return address are the same
      Obj(i, TRUE, "nft",   Contents(2, Exp("A", "A", 1))) }

RECURSIVE FilledDbs(_)
\* the databases the worker's inserts leave after storing objects 1..n
FilledDbs(n) ==
    IF n = 0 THEN {EmptyDb}
    ELSE { InsertTransaction(db, CHOOSE so \in StoredObjectTryFrom(o) : TRUE).db :
              db \in FilledDbs(n - 1), o \in PageOutputs(n) }

\* the page and page_size parameters of the requests: absent, zero, pages
\* inside and past the data, and a page whose offset leaves the u32
PageParams == {{}, {0}, {1}, {2}, {3}, {4}, {9}}
PageSizeParams == {{}, {0}, {1}, {2}}

InitPages ==
    /\ chain = [s \in 1..MaxSeq |-> CHOOSE c \in TxPool : TRUE]
    /\ indexer_config = [download_queue_size |-> 1]
    /\ \E n \in 0..MaxRows : \E db \in FilledDbs(n) :
          /\ objects = db.objects
          /\ expiration_unlock_conditions = db.expiration_unlock_conditions
    /\ last_checkpoint_sync = {}
    /\ LATEST_CHECKPOINT_UNIX_TIMESTAMP_MS \in {{}, {TimestampOf(1)}}
    /\ METRICS = ZeroMetrics
    /\ executor = [state |-> "Idle", next |-> 0, acked |-> 0]
    /\ workers = NoWorkers
    /\ history = [saved |-> {}, returned_ok |-> {}, earlier_ok |-> {}]
    /\ response = NoResponse
    /\ process = ProcessStarted

NextPages ==
    \E address \in Addrs, t \in {"Basic", "Nft"}, r \in BOOLEAN,
       page \in PageParams, page_size \in PageSizeParams, oc \in BOOLEAN :
          HttpGetPage(address, t, r, TRUE, page, page_size, oc)

SpecPages == InitPages /\ [][NextPages]_vars

(***************************************************************************)
(* The HTTP surface: the responses of the router for requests to the       *)
(* routes, with well-formed and malformed parameters, and to other paths.  *)
(***************************************************************************)
ApiError == {"BadRequest", "NotFound", "ServiceUnavailable", "InternalServerError", "Forbidden", "IotaTypes"}

\* the match of ApiError::into_response
StatusCodeOf(e) ==
    CASE e = "BadRequest"          -> 400
      [] e = "NotFound"            -> 404
      [] e = "ServiceUnavailable"  -> 503
      [] e = "InternalServerError" -> 500
      [] e = "Forbidden"           -> 403
      [] e = "IotaTypes"           -> 400

RECURSIVE to_string(_)
\* u16::to_string: the decimal digits, the most significant first
to_string(n) ==
    IF n < 10 THEN << n >> ELSE Append(to_string(n \div 10), n % 10)

\* a response: its status, the ApiError it was made from if any, and the
\* error_code of its body if the body is an ErrorBody
into_response(e) ==
    [status |-> StatusCodeOf(e), error |-> {e}, error_code |-> {to_string(StatusCodeOf(e))}]

\* a response that is not made from an ApiError: a status and a body that
\* is a payload or a plain text
PlainResponse(status) == [status |-> status, error |-> {}, error_code |-> {}]

\* the rejection of axum's Query extractor: 400 with a text body
QueryRejection == PlainResponse(400)

\* the rejection of ExtractPath
ExtractPath(address_ok) == IF address_ok THEN {} ELSE {into_response("BadRequest")}

fallback == into_response("Forbidden")

\* GET /metrics
metrics(encode_ok) == IF encode_ok THEN PlainResponse(200) ELSE PlainResponse(500)

\* Result<_, ApiError> of a v1 handler as a response; a handler that panics
\* sends none
ResultIntoResponse(result) ==
    CASE result.status = "Ok"    -> {PlainResponse(200)}
      [] result.status = "Panic" -> {}
      [] OTHER                   -> {into_response(result.status)}

RouteTable == {"/v1/basic/:address", "/v1/nft/:address", "/health", "/metrics"}
Paths == RouteTable \cup {"/v1/alias/:address", "/"}

\* the router with the extractors of the handlers, in the order of their
\* arguments
Serve(db, path, address_ok, query_ok, encode_ok, conn_ok, address, page, page_size) ==
    IF path \in {"/v1/basic/:address", "/v1/nft/:address"}
    THEN IF ExtractPath(address_ok) # {} THEN ExtractPath(address_ok)
         ELSE IF ~query_ok THEN {QueryRejection}
         ELSE ResultIntoResponse(
                 IF path = "/v1/basic/:address"
                 THEN basic(db, conn_ok, address, page, page_size, TRUE)
                 ELSE nft(db, conn_ok, address, page, page_size, TRUE))
    ELSE IF path = "/metrics" THEN {metrics(encode_ok)}
    ELSE {fallback}

HttpRequest(path, address_ok, query_ok, encode_ok, conn_ok, address, page, page_size) ==
    /\ process.exit = {}
    /\ process.rest = "Serving"
    /\ path # "/health"
    /\ response' =
         {[path |-> path, address_ok |-> address_ok, query_ok |-> query_ok,
           reply |-> Serve(CurrentDb, path, address_ok, query_ok, encode_ok, conn_ok,
                           address, page, page_size)]}
    /\ UNCHANGED << process, chain, indexer_config, objects, expiration_unlock_conditions,
                    last_checkpoint_sync, LATEST_CHECKPOINT_UNIX_TIMESTAMP_MS, METRICS,
                    executor, workers, history >>

\* objects.filter(object_type.eq(t)).count()
CountOfType(t) == Len(SelectSeq(objects, LAMBDA row : row.object_type = t))

HealthResponse(objects_count, basic_objects_count, nft_objects_count) ==
    [status |-> 200, error |-> {}, error_code |-> {},
     objects_count |-> objects_count,
     basic_objects_count |-> basic_objects_count,
     nft_objects_count |-> nft_objects_count]

\* GET /health up to its first query: the connection and objects.count()
HealthCountObjects(conn_ok, query_ok) ==
    /\ process.exit = {}
    /\ process.rest = "Serving"
    /\ process.health = {}
    /\ IF conn_ok /\ query_ok
       THEN /\ process' = [process EXCEPT
                              !.health = {[pc |-> "basic", objects_count |-> Len(objects),
                                           basic_objects_count |-> 0]}]
            /\ response' = NoResponse
       ELSE /\ response' = {[path |-> "/health", address_ok |-> TRUE, query_ok |-> TRUE,
                             reply |-> {into_response("ServiceUnavailable")}]}
            /\ UNCHANGED process
    /\ UNCHANGED << chain, indexer_config, objects, expiration_unlock_conditions,
                    last_checkpoint_sync, LATEST_CHECKPOINT_UNIX_TIMESTAMP_MS, METRICS,
                    executor, workers, history >>

\* its second query: the count of the basic objects
HealthCountBasic(query_ok) ==
    /\ process.exit = {}
    /\ \E h \in process.health :
          /\ h.pc = "basic"
          /\ IF query_ok
             THEN /\ process' = [process EXCEPT
                                    !.health = {[h EXCEPT !.pc = "nft",
                                                   !.basic_objects_count = CountOfType("Basic")]}]
                  /\ response' = NoResponse
             ELSE /\ process' = [process EXCEPT !.health = {}]
                  /\ response' = {[path |-> "/health", address_ok |-> TRUE, query_ok |-> TRUE,
                                   reply |-> {into_response("InternalServerError")}]}
    /\ UNCHANGED << chain, indexer_config, objects, expiration_unlock_conditions,
                    last_checkpoint_sync, LATEST_CHECKPOINT_UNIX_TIMESTAMP_MS, METRICS,
                    executor, workers, history >>

\* its third query, the count of the nft objects, and the response
HealthCountNft(query_ok) ==
    /\ process.exit = {}
    /\ \E h \in process.health :
          /\ h.pc = "nft"
          /\ process' = [process EXCEPT !.health = {}]
          /\ response' =
               {[path |-> "/health", address_ok |-> TRUE, query_ok |-> TRUE,
                 reply |-> {IF query_ok
                            THEN HealthResponse(h.objects_count, h.basic_objects_count,
                                                CountOfType("Nft"))
                            ELSE into_response("InternalServerError")}]}
    /\ UNCHANGED << chain, indexer_config, objects, expiration_unlock_conditions,
                    last_checkpoint_sync, LATEST_CHECKPOINT_UNIX_TIMESTAMP_MS, METRICS,
                    executor, workers, history >>

InitHttp ==
    /\ chain = [s \in 1..MaxSeq |-> CHOOSE c \in TxPool : TRUE]
    /\ indexer_config = [download_queue_size |-> 1]
    /\ \E n \in 0..MaxSeq : \E db \in FilledDbs(n) :
          /\ objects = db.objects
          /\ expiration_unlock_conditions = db.expiration_unlock_conditions
    /\ last_checkpoint_sync = {}
    /\ LATEST_CHECKPOINT_UNIX_TIMESTAMP_MS = {}
    /\ METRICS = ZeroMetrics
    /\ executor = [state |-> "Idle", next |-> 0, acked |-> 0]
    /\ workers = NoWorkers
    /\ history = [saved |-> {}, returned_ok |-> {}, earlier_ok |-> {}]
    /\ response = NoResponse
    /\ process = ProcessStarted

NextHttp ==
    \/ \E path \in Paths, address_ok \in BOOLEAN, query_ok \in BOOLEAN,
          encode_ok \in BOOLEAN, conn_ok \in BOOLEAN, address \in Addrs,
          page \in {{}, {0}, {2}}, page_size \in {{}, {1}} :
             HttpRequest(path, address_ok, query_ok, encode_ok, conn_ok, address, page, page_size)
    \/ \E conn_ok \in BOOLEAN, query_ok \in BOOLEAN : HealthCountObjects(conn_ok, query_ok)
    \/ \E query_ok \in BOOLEAN : HealthCountBasic(query_ok)
    \/ \E query_ok \in BOOLEAN : HealthCountNft(query_ok)

SpecHttp == InitHttp /\ [][NextHttp]_vars

(***************************************************************************)
(* The indexer with one worker and with database errors, shutdowns and     *)
(* restarts: a checkpoint that failed is processed again by the next run.  *)
(***************************************************************************)
SpecRetry == InitMain /\ [][Next]_vars

(***************************************************************************)
(* The indexer on a chain that begins with the genesis checkpoint, the     *)
(* checkpoint with sequence number 0.                                      *)
(***************************************************************************)
\* the checkpoint of the genesis transaction
GenesisCheckpoint == CHOOSE c \in FilterPool : Len(c) = 1 /\ c[1].genesis

InitGenesis ==
    /\ chain \in [0..MaxSeq -> FilterPool]
    /\ chain[0] = GenesisCheckpoint
    /\ indexer_config \in [download_queue_size : {1, 2}]
    /\ objects = << >>
    /\ expiration_unlock_conditions = << >>
    /\ last_checkpoint_sync = {}
    /\ LATEST_CHECKPOINT_UNIX_TIMESTAMP_MS = {}
    /\ METRICS = ZeroMetrics
    /\ executor = [state |-> "Idle", next |-> 0, acked |-> 0]
    /\ workers = NoWorkers
    /\ history = [saved |-> {}, returned_ok |-> {}, earlier_ok |-> {}]
    /\ response = NoResponse
    /\ process = ProcessStarted

SpecGenesis == InitGenesis /\ [][NextFilter]_vars

(***************************************************************************)
(* The /health handler next to the pipeline: the worker commits between    *)
(* the queries of a request.                                               *)
(***************************************************************************)
NextHealth ==
    \/ ExecutorStart
    \/ Dispatch
    \/ \E s \in 1..MaxSeq : WorkerBegin(s)
    \/ \E s \in 1..MaxSeq : WorkerStore(s)
    \/ \E s \in 1..MaxSeq : WorkerInsert(s)
    \/ \E s \in 1..MaxSeq : WorkerInsertRejects(s)
    \/ \E s \in 1..MaxSeq : WorkerDelete(s)
    \/ Acknowledge(TRUE)
    \/ Restart
    \/ HealthCountObjects(TRUE, TRUE)
    \/ HealthCountBasic(TRUE)
    \/ HealthCountNft(TRUE)

SpecHealth == InitRest /\ [][NextHealth]_vars

(***************************************************************************)
(* The resolved query as a function of the clock: a process on a database  *)
(* that earlier runs have filled, with the clock cell at any value of the  *)
(* u64, serving resolved requests.                                         *)
(***************************************************************************)
\* values of the clock cell: around the expirations of the stored objects
\* and around the sign bit of the i64 the value is cast to
ClockValues ==
    {0, 999, 1000, 1001, 2000, 3000, I64SignBit - 1, I64SignBit, I64SignBit + 2000}

InitClock ==
    /\ chain = [s \in 1..MaxSeq |-> CHOOSE c \in TxPool : TRUE]
    /\ indexer_config = [download_queue_size |-> 1]
    /\ \E n \in 0..MaxSeq : \E db \in FilledDbs(n) :
          /\ objects = db.objects
          /\ expiration_unlock_conditions = db.expiration_unlock_conditions
    /\ last_checkpoint_sync = {}
    /\ LATEST_CHECKPOINT_UNIX_TIMESTAMP_MS \in {{c} : c \in ClockValues}
    /\ METRICS = ZeroMetrics
    /\ executor = [state |-> "Idle", next |-> 0, acked |-> 0]
    /\ workers = NoWorkers
    /\ history = [saved |-> {}, returned_ok |-> {}, earlier_ok |-> {}]
    /\ response = NoResponse
    /\ process = ProcessStarted

NextClock ==
    \E address \in RequestAddrs, t \in {"Basic", "Nft"} : HttpGet(address, t, TRUE, TRUE)

SpecClock == InitClock /\ [][NextClock]_vars

(***************************************************************************)
(* Properties.                                                             *)
(***************************************************************************)
\* the ids of the rows of a table
ObjectIds == {objects[i].id : i \in 1..Len(objects)}
ExpirationIds ==
    {expiration_unlock_conditions[i].object_id : i \in 1..Len(expiration_unlock_conditions)}

\* C1 (pair integrity): in every state the database can be observed in - after
\* each committed or rolled-back per-object transaction, after the delete
\* statement and after a restart - every row of expiration_unlock_conditions
\* has a row of objects with the same object id.
PairIntegrity == ExpirationIds \subseteq ObjectIds

\* C1 happens: after a restart a delete statement has removed an object while
\* another worker's transaction was rolled back, and expiration rows are left
PairIntegrityWitness ==
    /\ history.earlier_ok # {}
    /\ ExpirationIds # {}
    /\ \E s \in DOMAIN workers : workers[s].pc = "err"
    /\ \E s \in DOMAIN workers :
          /\ workers[s].pc = "ok"
          /\ DeletedAddresses(chain[s]) # << >>
          /\ Cardinality(ObjectIds) < Cardinality(Ids)

\* the worker of checkpoint s has not yet made all the writes of the checkpoint
WritesLeft(s) ==
    /\ s \in DOMAIN workers
    /\ workers[s].pc # "ok"
    /\ CreatedObjects(chain[s]) # << >> \/ DeletedAddresses(chain[s]) # << >>

\* C2 (ascending application): for two checkpoints M < N handed to the pool, no
\* upsert or delete of N has taken effect while a write of M is still to come.
AscendingApplication ==
    \A M \in DOMAIN workers, N \in DOMAIN workers :
        M < N /\ workers[N].wrote => ~WritesLeft(M)

\* C3 (save only after success): whenever save(task, s) is executed the worker
\* has returned Ok for s in this run; no save is made for a checkpoint whose
\* process_checkpoint returned an error, and none once the executor has been
\* cancelled or has failed, whatever the workers still in flight do.
SavedOnlyAfterSuccess ==
    /\ [](/\ history.saved \subseteq history.returned_ok
          /\ \A s \in DOMAIN workers : workers[s].pc = "err" => s \notin history.saved)
    /\ [][executor.state \in {"Stopped", "Failed"}
            => /\ history'.saved \subseteq history.saved
               /\ last_checkpoint_sync' = last_checkpoint_sync]_vars

\* C3 happens: after a save the executor was cancelled, and a checkpoint that
\* was in flight has returned Ok without being saved
SavedOnlyAfterSuccessWitness ==
    /\ executor.state = "Stopped"
    /\ history.saved # {}
    /\ \E s \in DOMAIN workers : workers[s].pc = "ok" /\ s \notin history.saved

\* the sequence_number of the row of the task "primary", 0 without a row
PersistedProgress ==
    IF last_checkpoint_sync = {} THEN 0
    ELSE (CHOOSE r \in last_checkpoint_sync : r.task_id = "primary").sequence_number

\* the checkpoints whose process_checkpoint has returned Ok, in any run
Applied == history.earlier_ok \cup history.returned_ok

\* C4 (at-least-once): every checkpoint the persisted progress covers has been
\* applied completely; a run starts its reader right after the persisted
\* progress, hands out the checkpoints one by one, and every checkpoint
\* between the persisted progress and the reader is with a worker - so after
\* a crash at any point every checkpoint not covered is handed out again and
\* none is skipped.
AtLeastOnce ==
    /\ [](/\ 1..PersistedProgress \subseteq Applied
          /\ executor.state = "Running"
               => /\ executor.next > PersistedProgress
                  /\ (PersistedProgress + 1)..(executor.next - 1) \subseteq DOMAIN workers)
    /\ [][/\ executor.state = "Idle" /\ executor'.state = "Running"
               => executor'.next = PersistedProgress + 1
          /\ executor.state = "Running" /\ executor'.next # executor.next
               /\ executor'.state = "Running"
               => /\ executor'.next = executor.next + 1
                  /\ executor.next \in DOMAIN workers']_vars

\* C4 happens: the process was restarted after a checkpoint had been applied
\* but not saved, and the checkpoint is with a worker again
AtLeastOnceWitness ==
    \E s \in history.earlier_ok :
        /\ s > PersistedProgress
        /\ s \in DOMAIN workers
        /\ workers[s].wrote

\* C5 (monotone progress): over save calls, failing saves, crashes and
\* restarts the task's row of last_checkpoint_sync never disappears and its
\* sequence_number never decreases.
MonotoneProgress ==
    [][/\ PersistedProgress' >= PersistedProgress
       /\ last_checkpoint_sync # {} => last_checkpoint_sync' # {}]_vars

\* C5 happens: a run that was started on a database with a progress row has
\* saved a further checkpoint
MonotoneProgressWitness ==
    /\ history.earlier_ok # {}
    /\ history.saved # {}
    /\ PersistedProgress = MaxSeq
    /\ executor.acked = PersistedProgress

\* C6 (idempotence of the worker): on every database state the indexer can
\* leave behind and for every checkpoint, a process_checkpoint that succeeds
\* succeeds again when it is run a second time, and the second run leaves
\* objects and expiration_unlock_conditions as the first run left them.
WorkerIdempotent ==
    \A txs \in TxPool :
        LET first  == ProcessAlone(CurrentDb, txs)
            second == ProcessAlone(first.db, txs)
        IN  first.ok => second.ok /\ second.db = first.db

\* C6 happens: a checkpoint that was applied in an earlier run has been
\* applied a second time on the database the first time left
WorkerIdempotentWitness ==
    \E s \in history.earlier_ok \cap history.returned_ok :
        /\ CreatedObjects(chain[s]) # << >>
        /\ DeletedAddresses(chain[s]) # << >>
        /\ objects # << >>

\* the rows of a table as a relation
Rows(table) == {table[i] : i \in 1..Len(table)}

RECURSIVE NetEffect(_)
\* the database after the checkpoints 1..n have been applied one after the
\* other, in ascending order, to the empty database
NetEffect(n) ==
    IF n = 0 THEN EmptyDb ELSE ProcessAlone(NetEffect(n - 1), chain[n]).db

\* process_checkpoint of checkpoint N returns Ok in this step
ReturnsOk(N) == N \in history'.returned_ok /\ N \notin history.returned_ok

\* C7 (consistency I1): when the worker returns Ok for checkpoint N, every
\* checkpoint up to N has been applied completely, and when N is the last
\* checkpoint of the chain (nothing later can have written) the two tables
\* hold exactly the net effect of the checkpoints 1..N; the progress persisted
\* for N by the save that follows is at least N.
ConsistencyI1 ==
    [][\A N \in 1..MaxSeq :
          /\ ReturnsOk(N)
               => /\ 1..N \subseteq Applied'
                  /\ N = MaxSeq
                       => /\ Rows(objects') = Rows(NetEffect(N).objects)
                          /\ Rows(expiration_unlock_conditions')
                               = Rows(NetEffect(N).expiration_unlock_conditions)
          /\ N \in history'.saved /\ N \notin history.saved /\ executor'.state = "Running"
               => PersistedProgress' >= N]_vars

\* the save of checkpoint N fails in this step
SaveFails(N) ==
    /\ N \in history'.saved
    /\ N \notin history.saved
    /\ executor'.state = "Failed"

\* C8 (crash before save): when the worker has returned Ok for N and save
\* fails, the progress row is unchanged and stays below N, N is not
\* acknowledged and the run ends, so that a restart hands N out again; and
\* when no other checkpoint in the pool has written, processing N again
\* succeeds and leaves the tables as they are - the state of a run whose
\* save had succeeded.
CrashBeforeSave ==
    [][\A N \in 1..MaxSeq :
          SaveFails(N)
            => /\ N \in history.returned_ok
               /\ last_checkpoint_sync' = last_checkpoint_sync
               /\ PersistedProgress' < N
               /\ executor'.acked = executor.acked
               /\ N \in DOMAIN workers'
               /\ (\A t \in DOMAIN workers \ {N} : ~workers[t].wrote)
                    => ProcessAlone(CurrentDb, chain[N]) = [ok |-> TRUE, db |-> CurrentDb]]_vars

\* the expiration rows
Expirations == Rows(expiration_unlock_conditions)

\* the object rows of a variant that have their expiration row in the set exps
ObjectsWith(variant, exps) ==
    {o \in Rows(objects) :
        o.object_type = variant /\ \E e \in exps : e.object_id = o.id}

\* C9 (resolved split): a resolved query for address A and a variant, answered
\* with the clock at now_ms, returns exactly the variant's objects with
\* owner = A and unix_time * 1000 > now_ms and those with return_address = A
\* and unix_time * 1000 <= now_ms, each once; an object at the boundary
\* unix_time * 1000 = now_ms is returned to its return address only.
ResolvedSplit ==
    \A r \in response :
        r.resolved /\ r.conn_ok /\ LATEST_CHECKPOINT_UNIX_TIMESTAMP_MS # {}
          => LET now_ms == CHOOSE t \in LATEST_CHECKPOINT_UNIX_TIMESTAMP_MS : TRUE
                 A == r.address
                 returned == Rows(r.result.objects)
             IN  /\ r.result.status = "Ok"
                 /\ returned =
                      ObjectsWith(r.object_type,
                                  {e \in Expirations :
                                     e.owner = A /\ e.unix_time * 1000 > now_ms})
                      \cup ObjectsWith(r.object_type,
                                  {e \in Expirations :
                                     e.return_address = A /\ e.unix_time * 1000 <= now_ms})
                 /\ Cardinality(returned) = Len(r.result.objects)
                 /\ \A o \in ObjectsWith(r.object_type,
                                         {e \in Expirations : e.unix_time * 1000 = now_ms}) :
                        o \in returned
                          <=> \E e \in Expirations :
                                 e.object_id = o.id /\ e.return_address = A

\* C9 happens: a resolved query of a return address is answered with an object
\* that expires exactly at the clock value and belongs to another owner
ResolvedSplitWitness ==
    \E r \in response, e \in Expirations :
        /\ r.resolved
        /\ r.result.status = "Ok"
        /\ LATEST_CHECKPOINT_UNIX_TIMESTAMP_MS = {e.unix_time * 1000}
        /\ e.return_address = r.address
        /\ e.owner # r.address
        /\ \E i \in 1..Len(r.result.objects) : r.result.objects[i].id = e.object_id

\* C10 (clock unset): while the clock cell is unset every resolved query is
\* answered with 503 and no objects; a raw query is answered as with a clock,
\* with the variant's objects that have the address as owner or as return
\* address.
ClockUnset ==
    \A r \in response :
        LATEST_CHECKPOINT_UNIX_TIMESTAMP_MS = {}
          => /\ r.resolved
                  => r.result = [status |-> "ServiceUnavailable", objects |-> << >>]
             /\ ~r.resolved /\ r.conn_ok
                  => /\ r.result.status = "Ok"
                     /\ Rows(r.result.objects) =
                          ObjectsWith(r.object_type,
                                      {e \in Expirations :
                                         e.owner = r.address \/ e.return_address = r.address})

\* C10 happens: with the clock unset and a connection at hand, a resolved
\* query for the owner of a stored, unexpired object is refused
ClockUnsetWitness ==
    \E r \in response, e \in Expirations :
        /\ LATEST_CHECKPOINT_UNIX_TIMESTAMP_MS = {}
        /\ r.resolved
        /\ r.conn_ok
        /\ e.owner = r.address
        /\ \E o \in Rows(objects) : o.id = e.object_id /\ o.object_type = r.object_type
        /\ r.result.status = "ServiceUnavailable"

\* the checkpoints whose process_checkpoint has got past the clock update's
\* get_or_init in this run
Begun == {s \in DOMAIN workers : workers[s].pc # "new"} \cup history.returned_ok

ClockMonotone ==
    [][\A t \in LATEST_CHECKPOINT_UNIX_TIMESTAMP_MS,
          u \in LATEST_CHECKPOINT_UNIX_TIMESTAMP_MS' : u >= t]_vars


\* the sequence a request pages through: the objects of the requested variant
\* that pass the address filter of the route, in insertion order
Unpaginated(r) ==
    BaseQuery(CurrentDb,
              IF r.resolved /\ LATEST_CHECKPOINT_UNIX_TIMESTAMP_MS # {}
              THEN CHOOSE t \in LATEST_CHECKPOINT_UNIX_TIMESTAMP_MS : TRUE ELSE 0,
              r.address, r.object_type, r.resolved)

\* page k of size p of a sequence
PageOf(full, k, p) ==
    SubSeq(full, (k - 1) * p + 1, IF k * p < Len(full) THEN k * p ELSE Len(full))

\* the requests with a page >= 1 and a page_size >= 1 that the route serves
Paged(r) ==
    /\ r.conn_ok
    /\ r.resolved => LATEST_CHECKPOINT_UNIX_TIMESTAMP_MS # {}
    /\ r.page # {} /\ r.page_size # {}
    /\ \A k \in r.page : k >= 1
    /\ \A p \in r.page_size : p >= 1

\* C13: pagination round trip - for a page k >= 1 of size p >= 1 the response is
\* exactly the k-th block of p objects of the unpaginated result, in the same
\* order (so pages 1..k concatenate to its prefix of length min(k*p, total),
\* pages are disjoint) and a page past the end is empty
PaginationRoundTrip ==
    \A r \in response :
        Paged(r) =>
            /\ r.result.status = "Ok"
            /\ \A k \in r.page, p \in r.page_size :
                  r.result.objects = PageOf(Unpaginated(r), k, p)

\* the round trip on the requests that fetch_stored_objects serves with an
\* offset inside the u32
PaginationRoundTripFetch ==
    \A r \in response :
        Paged(r) /\ r.resolved =>
            \A k \in r.page, p \in r.page_size :
                (k - 1) * p < U32 =>
                    /\ r.result.status = "Ok"
                    /\ r.result.objects = PageOf(Unpaginated(r), k, p)

\* C14: raw by address - a page of /v1/basic/{A} or /v1/nft/{A} whose offset
\* fits the u32 is the slice [offset, offset + page_size) of the objects of the
\* requested variant that have A as owner or return address: the variant
\* filter comes before the slice
RawSliceOfVariant ==
    \A r \in response :
        Paged(r) /\ ~r.resolved =>
            \A k \in r.page, p \in r.page_size :
                (k - 1) * p < U32 =>
                    /\ r.result.status = "Ok"
                    /\ r.result.objects =
                         PageOf(BaseQuery(CurrentDb, 0, r.address, r.object_type, FALSE), k, p)

\* the page and the page_size of a request after the defaults 1 and 10
PageNumber(r) == IF r.page = {} THEN 1 ELSE CHOOSE k \in r.page : TRUE
PageSize(r) == IF r.page_size = {} THEN 10 ELSE CHOOSE p \in r.page_size : TRUE

\* C15: page must be >= 1 - a request with page = 0 or page_size = 0 that gets
\* a connection is answered with BadRequest, no request makes the handler
\* panic, and no answered query ran with an offset other than
\* (page - 1) * page_size
PageValidated ==
    \A r \in response :
        r.conn_ok /\ (r.resolved => LATEST_CHECKPOINT_UNIX_TIMESTAMP_MS # {}) =>
            /\ PageNumber(r) = 0 \/ PageSize(r) = 0 => r.result.status = "BadRequest"
            /\ r.result.status # "Panic"
            /\ r.result.status = "Ok" =>
                  /\ PageNumber(r) >= 1
                  /\ (PageNumber(r) - 1) * PageSize(r) < U32

\* the rows the query of a raw request loads, before they are decoded
Selected(r) ==
    LimitOffset(AddressQuery(CurrentDb, r.address), PageSize(r),
                (PageNumber(r) - 1) * PageSize(r))

\* C16: a row that the query of /v1/basic/{A} or /v1/nft/{A} selects and that
\* does not decode into the requested variant makes the request fail with
\* InternalServerError; an Ok response holds every selected row
DecodeFailureIsInternal ==
    \A r \in response :
        /\ r.conn_ok /\ ~r.resolved
        /\ PageNumber(r) >= 1 /\ (PageNumber(r) - 1) * PageSize(r) < U32
        => /\ (\E i \in 1..Len(Selected(r)) : OutputTryFrom(r.object_type, Selected(r)[i]) = {})
                => r.result.status = "InternalServerError"
           /\ r.result.status = "Ok" => Len(r.result.objects) = Len(Selected(r))

\* C17: graceful shutdown - once the process has exited after a shutdown
\* signal, the executor task has terminated and no checkpoint is left in the
\* middle of its writes
GracefulExit ==
    process.exit # {} /\ process.signal => ExecutorTerminated

\* C18: failure isolation - while a worker holds an error for checkpoint N the
\* persisted progress and the executor's acknowledged checkpoint stay below N;
\* a run that ended as Failed without a signal and without an error of the REST
\* server leaves the server serving and the process running; and the step that
\* ends the run with the failure changes nothing of the process
FailureIsolation ==
    /\ [](\A s \in DOMAIN workers :
             workers[s].pc = "err" => PersistedProgress < s /\ executor.acked < s)
    /\ [](executor.state = "Failed" /\ ~process.signal /\ process.rest # "Failed"
             => process.rest = "Serving" /\ process.exit = {})
    /\ [][executor.state = "Running" /\ executor'.state = "Failed"
             => process' = process]_vars

\* the run has ended with the error of checkpoint N, the progress is below N and
\* the server has answered a request since
FailureIsolationWitness ==
    /\ executor.state = "Failed"
    /\ \E s \in DOMAIN workers : workers[s].pc = "err" /\ PersistedProgress < s /\ s > 1
    /\ \E r \in response : r.result.status = "Ok" /\ r.result.objects # << >>

\* C19: the exit code reflects the subsystems - when the process has exited
\* after the executor or the REST server ended with a failure the exit code is
\* not 0, and the exit code is 0 only when both ended cleanly
ExitCodeReflectsFailure ==
    \A code \in process.exit :
        code = 0 <=> executor.state # "Failed" /\ process.rest # "Failed"

\* C20: --reset-db reverts only the objects database - a step that starts the
\* process with --reset-db leaves the rows of last_checkpoint_sync as they
\* were
ResetKeepsProgress ==
    [][process'.reset_db /\ executor'.state = "Idle"
          => last_checkpoint_sync' = last_checkpoint_sync]_vars

\* the outputs of a checkpoint's creation batch that carry no expiration
WithoutExpiration(s) ==
    {CreatedObjects(chain[s])[i] : i \in {j \in 1..Len(CreatedObjects(chain[s])) :
                                            CreatedObjects(chain[s])[j].contents.exp = {}}}

\* C21: a shared output of a known variant without expiration is processed
\* without error - with no database error, the worker of its checkpoint does
\* not return an error, and once it has returned the object has its row in
\* objects and no row in expiration_unlock_conditions
NoExpirationIndexed ==
    \A s \in DOMAIN workers :
        WithoutExpiration(s) # {} =>
            /\ workers[s].pc # "err"
            /\ workers[s].pc = "ok" =>
                  \A so \in WithoutExpiration(s) :
                      so.id \in ObjectIds /\ so.id \notin ExpirationIds

\* the worker of checkpoint s has built its batches and written nothing yet
BatchBuilt(s) ==
    s \in DOMAIN workers /\ workers[s].pc \in {"store", "insert", "delete"} /\ ~workers[s].wrote

\* the output is in the creation batch of the worker of checkpoint s
InBatch(s, o) ==
    \E i \in 1..Len(workers[s].created) :
        workers[s].created[i].id = o.id /\ workers[s].created[i].contents = o.contents

RemovedBy(s) ==
    UNION { {chain[s][t].removed[k].id :
                k \in {j \in 1..Len(chain[s][t].removed) : chain[s][t].removed[j].shared}} :
            t \in {u \in 1..Len(chain[s]) : chain[s][u].genesis \/ chain[s][u].has_package} }

\* the ids of the creation batch of checkpoint s
CreatedBy(s) ==
    {CreatedObjects(chain[s])[i].id : i \in 1..Len(CreatedObjects(chain[s]))}

\* C23: delete via removed_pre_version - when the worker of checkpoint s
\* returns success, no id that a relevant transaction of s lists as shared
\* removed object, and that s does not create, has a row in objects or in
\* expiration_unlock_conditions
RemovedAreDeleted ==
    [][\A s \in DOMAIN workers :
          s \in DOMAIN workers' /\ workers[s].pc # "ok" /\ workers'[s].pc = "ok"
          => \A i \in RemovedBy(s) \ CreatedBy(s) :
                /\ i \notin {objects'[k].id : k \in 1..Len(objects')}
                /\ i \notin {expiration_unlock_conditions'[k].object_id :
                                k \in 1..Len(expiration_unlock_conditions')}]_vars

\* a worker has succeeded on a checkpoint that removes an object an earlier
\* checkpoint stored
RemovedAreDeletedWitness ==
    \E s \in DOMAIN workers :
        /\ workers[s].pc = "ok"
        /\ \E i \in RemovedBy(s) \ CreatedBy(s) :
              /\ \E r \in 1..(s - 1) : i \in CreatedBy(r) /\ r \in Applied
              /\ i \notin ObjectIds

\* the worker of checkpoint s commits the transaction of its next object in
\* this step
InsertsNext(s) ==
    /\ s \in DOMAIN workers /\ s \in DOMAIN workers'
    /\ workers[s].pc = "insert"
    /\ workers'[s].created = Tail(workers[s].created)

\* C24: upsert overwrite - neither table ever holds two rows for one id, and
\* when a worker commits the transaction of an object, also one whose id is
\* already in the table, objects holds exactly one row for the id, with the
\* new type and contents, and expiration_unlock_conditions exactly one row
\* for it, the one of the new contents
UpsertOverwrite ==
    /\ [](/\ Len(objects) = Cardinality(ObjectIds)
          /\ Len(expiration_unlock_conditions) = Cardinality(ExpirationIds))
    /\ [][\A s \in 1..MaxSeq :
             InsertsNext(s) =>
                LET so == Head(workers[s].created)
                IN  /\ Cardinality({k \in 1..Len(objects') : objects'[k].id = so.id}) = 1
                    /\ \E k \in 1..Len(objects') : objects'[k] = so
                    /\ \A k \in 1..Len(expiration_unlock_conditions') :
                          expiration_unlock_conditions'[k].object_id = so.id
                          => expiration_unlock_conditions'[k] \in ExpirationTryFrom(so)]_vars

\* object 1, stored by an earlier checkpoint with its first contents, holds the
\* contents a later checkpoint gave it
UpsertOverwriteWitness ==
    /\ \E k \in 1..Len(objects) : objects[k].id = 1 /\ objects[k].contents.ver = 2
    /\ \E r \in Applied, s \in Applied :
          /\ r < s
          /\ \E i \in 1..Len(CreatedObjects(chain[r])) :
                CreatedObjects(chain[r])[i].id = 1 /\ CreatedObjects(chain[r])[i].contents.ver = 1
          /\ \E i \in 1..Len(CreatedObjects(chain[s])) :
                CreatedObjects(chain[s])[i].id = 1 /\ CreatedObjects(chain[s])[i].contents.ver = 2

\* C26: progress store round trip - load returns 0 for a task without a row,
\* and after a successful save(task, s) load(task) returns s, for every s up to
\* the end of the u64, while the rows of the other tasks are as before
ProgressRoundTrip ==
    \A task_name \in TaskNames :
        /\ (~\E r \in last_checkpoint_sync : r.task_id = task_name)
              => load(last_checkpoint_sync, task_name) = 0
        /\ \A s \in Checkpoints :
              LET r == save(last_checkpoint_sync, task_name, s, TRUE)
              IN  /\ r.ok
                  /\ load(r.rows, task_name) = s
                  /\ {x \in r.rows : x.task_id # task_name}
                       = {x \in last_checkpoint_sync : x.task_id # task_name}

\* a save of a number above the sign bit has left a negative sequence_number
\* next to the row of another task, and load returns the number saved
ProgressRoundTripWitness ==
    /\ \E r \in last_checkpoint_sync :
          /\ r.task_id = "primary" /\ r.sequence_number < 0
          /\ METRICS.last_checkpoint_checked = r.sequence_number
    /\ \E r \in last_checkpoint_sync : r.task_id = "secondary"
    /\ load(last_checkpoint_sync, "primary") > I64SignBit

\* no checkpoint has been handed to the worker in this run
NothingHandedYet ==
    DOMAIN workers = {} /\ history.returned_ok = {} /\ history.saved = {}

GaugeIsAcknowledged ==
    /\ METRICS.last_checkpoint_checked <= PersistedProgress
    /\ executor.acked > 0 /\ executor.acked \in history.saved
          => METRICS.last_checkpoint_checked = PersistedProgress

\* C28: every failure response has status 400 for BadRequest, 503 for
\* Unavailable, 403 for Forbidden and 500 for Internal, a path outside the
\* route table yields Forbidden (403), and the error_code of the body is
\* the decimal string of the status of the response
ErrorMapping ==
    \A r \in response : \A rp \in r.reply :
        rp.status >= 400 =>
            /\ \A e \in rp.error :
                  /\ e = "BadRequest" => rp.status = 400
                  /\ e = "ServiceUnavailable" => rp.status = 503
                  /\ e = "Forbidden" => rp.status = 403
                  /\ e = "InternalServerError" => rp.status = 500
            /\ r.path \notin RouteTable => rp.status = 403 /\ rp.error = {"Forbidden"}
            /\ rp.error_code = {to_string(rp.status)}

\* the part of it about the responses made from an ApiError
ApiErrorMapping ==
    \A r \in response : \A rp \in r.reply :
        /\ r.path \notin RouteTable => rp = into_response("Forbidden")
        /\ rp.error # {} =>
              /\ rp.error_code = {to_string(rp.status)}
              /\ rp.status = 403 => rp.error_code = {<< 4, 0, 3 >>}

\* C29: in every /health response objects_count equals basic_objects_count
\* + nft_objects_count, also when the worker commits between the three
\* count queries of the request
HealthCountsAddUp ==
    \A r \in response : \A rp \in r.reply :
        r.path = "/health" /\ rp.status = 200 =>
            rp.objects_count = rp.basic_objects_count + rp.nft_objects_count

\* the transactions of checkpoint s that count and that list i as a shared
\* pre-version removed object, by their place in the list
RemovedAt(s, i) ==
    {t \in 1..Len(chain[s]) :
        /\ tx_touches_stardust_objects(chain[s][t])
        /\ \E k \in 1..Len(chain[s][t].removed) :
              chain[s][t].removed[k].shared /\ chain[s][t].removed[k].id = i}

\* those that produce i as an output that is stored
CreatedAt(s, i) ==
    {t \in 1..Len(chain[s]) :
        /\ tx_touches_stardust_objects(chain[s][t])
        /\ \E k \in 1..Len(StoredOutputs(chain[s][t].output_objects)) :
              StoredOutputs(chain[s][t].output_objects)[k].id = i}

\* C30: creations before deletions - when the worker of checkpoint s returns
\* success, an id that relevant transactions of s both produce as an output
\* and list as pre-version removed has no row in objects and none in
\* expiration_unlock_conditions, whatever the order of those transactions
CreationsBeforeDeletions ==
    [][\A s \in DOMAIN workers :
          s \in DOMAIN workers' /\ workers[s].pc # "ok" /\ workers'[s].pc = "ok"
          => \A i \in RemovedBy(s) \cap CreatedBy(s) :
                /\ i \notin {objects'[k].id : k \in 1..Len(objects')}
                /\ i \notin {expiration_unlock_conditions'[k].object_id :
                                k \in 1..Len(expiration_unlock_conditions')}]_vars

\* a worker has succeeded on a checkpoint in which one id is removed by a
\* transaction before the one that creates it and another id by a
\* transaction after the one that creates it, and neither id has a row
CreationsBeforeDeletionsWitness ==
    \E s \in DOMAIN workers :
        /\ workers[s].pc = "ok"
        /\ \E i \in RemovedBy(s) \cap CreatedBy(s) :
              /\ \E t \in RemovedAt(s, i), u \in CreatedAt(s, i) : t < u
              /\ i \notin ObjectIds \cup ExpirationIds
        /\ \E i \in RemovedBy(s) \cap CreatedBy(s) :
              /\ \E t \in RemovedAt(s, i), u \in CreatedAt(s, i) : u < t
              /\ i \notin ObjectIds \cup ExpirationIds

\* C31: decoding failures are not fatal - with no database error, a worker
\* whose checkpoint has an output that cannot be decoded into a StoredObject
\* or into its expiration row still returns success, and when it returns the
\* other objects of its creation batch, unless the checkpoint removes them,
\* have their rows
DecodingFailureNotFatal ==
    \A s \in DOMAIN workers :
        /\ workers[s].pc # "err"
        /\ workers[s].pc = "ok" =>
              \A i \in 1..Len(CreatedObjects(chain[s])) :
                  LET so == CreatedObjects(chain[s])[i]
                  IN  so.contents.exp # {} /\ so.id \notin RemovedBy(s)
                         => so.id \in ObjectIds

\* C32: a resolved query never evaluates its predicate against a clock value
\* that is not the timestamp of a checkpoint handed to the worker - a
\* resolved request that is answered has not read the cell with the initial
\* value 0 of get_or_init
ResolvedClockIsCheckpointTime ==
    \A r \in response :
        r.resolved /\ r.result.status = "Ok" =>
            \A t \in LATEST_CHECKPOINT_UNIX_TIMESTAMP_MS :
                \E N \in Begun : t = TimestampOf(N)

\* the answer of the unpaginated resolved query of an address with the clock
\* cell at c
ResolvedAt(address, variant, c) ==
    fetch_stored_objects(CurrentDb, {c}, TRUE, address, {}, {}, variant, TRUE, TRUE).objects

\* the addresses whose resolved result holds the object row o at clock c
Holders(o, c) ==
    {A \in RequestAddrs :
        \E k \in 1..Len(ResolvedAt(A, o.object_type, c)) :
            ResolvedAt(A, o.object_type, c)[k].id = o.id}

ExclusiveResolvedOwnershipInI64 ==
    \A r \in response : \A c \in LATEST_CHECKPOINT_UNIX_TIMESTAMP_MS :
        r.result.status = "Ok" =>
            \A o \in Rows(objects) : \A e \in JoinedExp(CurrentDb, o) :
                /\ Cardinality(Holders(o, c)) = 1
                /\ Holders(o, c) \subseteq {e.owner, e.return_address}
                /\ Cardinality({k \in 1..Len(r.result.objects) :
                                   r.result.objects[k].id = o.id})
                      = (IF r.address \in Holders(o, c) /\ o.object_type = r.object_type
                         THEN 1 ELSE 0)
                /\ e.owner # e.return_address /\ e.return_address \in Holders(o, c)
                      => \A c2 \in ClockValues :
                            c2 > c /\ c2 < I64SignBit => e.return_address \in Holders(o, c2)

Finish(db, created, deleted) ==
    LET ins == MultiInsert(db, created)
    IN  IF ~ins.ok THEN ins
        ELSE [ok |-> TRUE, db |-> delete_objects(ins.db, deleted)]

\* the worker of checkpoint N fails in this step
Fails(N) ==
    /\ N \in DOMAIN workers /\ N \in DOMAIN workers'
    /\ workers[N].pc # "err"
    /\ workers'[N].pc = "err"

Commits(variant) ==
    {s \in 1..MaxSeq : InsertsNext(s) /\ Head(workers[s].created).object_type = variant}

\* C37: the counters count committed upserts - in every step of a running
\* process indexed_basic_outputs_count (indexed_nft_outputs_count) grows by
\* one for the per-object transaction of a Basic (Nft) object that commits
\* in the step, and does not change in a step in which none commits, as
\* when a transaction is rolled back or fails to commit
CountersCountCommits ==
    [][executor'.state # "Idle" =>
          /\ METRICS'.indexed_basic_outputs_count
               = METRICS.indexed_basic_outputs_count + Cardinality(Commits("Basic"))
          /\ METRICS'.indexed_nft_outputs_count
               = METRICS.indexed_nft_outputs_count + Cardinality(Commits("Nft"))]_vars

\* C38: last_checkpoint_indexed is set to N only in the step in which the
\* worker of N returns Ok, with no insert and no delete of N left to do; the
\* step in which a worker fails does not change it; and while the process
\* runs it is the sequence number of a checkpoint whose writes completed in
\* this run, or still 0
IndexedGaugeAfterWrites ==
    /\ [][executor'.state # "Idle" =>
             /\ METRICS'.last_checkpoint_indexed # METRICS.last_checkpoint_indexed
                  => LET N == METRICS'.last_checkpoint_indexed
                     IN  /\ ReturnsOk(N)
                         /\ workers'[N].created = << >>
                         /\ workers'[N].deleted = << >>
             /\ \A N \in 1..MaxSeq :
                   Fails(N) => METRICS'.last_checkpoint_indexed
                                 = METRICS.last_checkpoint_indexed]_vars
    /\ [](METRICS.last_checkpoint_indexed \in history.returned_ok \cup {0})

\* the gauge holds a checkpoint that has run its inserts and its delete,
\* while the worker of a later checkpoint has failed after a write
IndexedGaugeAfterWritesWitness ==
    \E N \in history.returned_ok : \E M \in DOMAIN workers :
        /\ METRICS.last_checkpoint_indexed = N
        /\ CreatedObjects(chain[N]) # << >>
        /\ DeletedAddresses(chain[N]) # << >>
        /\ M > N
        /\ workers[M].pc = "err"
        /\ workers[M].wrote

(***************************************************************************)
(* The shutdown of one run of the process: the signal task cancels the     *)
(* token of the REST server, sends on shutdown_tx, cancels the token of    *)
(* the metrics server, and awaits the executor's handle and then the       *)
(* handle of the metrics server.                                           *)
(***************************************************************************)
\* axum::serve(..).with_graceful_shutdown(cancel_token.cancelled()) of the
\* metrics server returns after prom_cancel_token.cancel()
PrometheusServerStops ==
    /\ process.exit = {}
    /\ process.signal
    /\ process.prometheus = "Serving"
    /\ process' = [process EXCEPT !.prometheus = "Stopped"]
    /\ response' = NoResponse
    /\ UNCHANGED << chain, indexer_config, objects, expiration_unlock_conditions,
                    last_checkpoint_sync, LATEST_CHECKPOINT_UNIX_TIMESTAMP_MS, METRICS,
                    executor, workers, history >>

\* self.prometheus_handle.await? of Indexer::graceful_shutdown: it is only
\* reached when self.handle.await?.inspect(..)? has not returned the error of
\* the executor
SignalTaskJoinsPrometheus ==
    /\ process.exit = {}
    /\ process.joined = {"Ok"}
    /\ ~process.prometheus_joined
    /\ process.prometheus = "Stopped"
    /\ process' = [process EXCEPT !.prometheus_joined = TRUE]
    /\ response' = NoResponse
    /\ UNCHANGED << chain, indexer_config, objects, expiration_unlock_conditions,
                    last_checkpoint_sync, LATEST_CHECKPOINT_UNIX_TIMESTAMP_MS, METRICS,
                    executor, workers, history >>

\* one run of the process with one worker, from its start to its exit
NextShutdown ==
    \/ ExecutorStart
    \/ Dispatch
    \/ \E s \in 1..MaxSeq : WorkerBegin(s)
    \/ \E s \in 1..MaxSeq : WorkerStore(s)
    \/ \E s \in 1..MaxSeq : WorkerInsert(s)
    \/ \E s \in 1..MaxSeq : WorkerInsertRejects(s)
    \/ \E s \in 1..MaxSeq : WorkerInsertFails(s)
    \/ \E s \in 1..MaxSeq : WorkerDelete(s)
    \/ \E s \in 1..MaxSeq : WorkerDeleteFails(s)
    \/ \E db_ok \in BOOLEAN : Acknowledge(db_ok)
    \/ WorkerErrorEndsRun
    \/ CtrlC
    \/ SignalTaskJoins
    \/ SignalTaskJoinsPrometheus
    \/ RestServerStops
    \/ PrometheusServerStops
    \/ MainReturns

\* the tokio scheduler polls every task that is ready: the REST server, the
\* metrics server, the signal task and the main task
SpecShutdown ==
    /\ InitMain
    /\ [][NextShutdown]_vars
    /\ WF_vars(RestServerStops)
    /\ WF_vars(PrometheusServerStops)
    /\ WF_vars(SignalTaskJoins)
    /\ WF_vars(SignalTaskJoinsPrometheus)
    /\ WF_vars(MainReturns)

\* the signal task has returned from Indexer::graceful_shutdown
SignalTaskDone ==
    process.joined = {"Err"} \/ process.prometheus_joined

\* each subsystem has stopped, by itself or with the exit of the process
AllStopped ==
    /\ process.rest # "Serving"
    /\ process.prometheus # "Serving" \/ process.exit # {}
    /\ ExecutorTerminated \/ process.exit # {}

\* C39: once the shutdown signal is raised, the executor, the metrics server
\* and the REST server eventually stop, and the signal task does not finish
\* before it has awaited the metrics server, also when the executor task
\* ended with an error
ShutdownTerminates ==
    /\ process.signal ~> AllStopped
    /\ [](SignalTaskDone => process.prometheus_joined)

\* the part of it about the subsystems stopping
ShutdownStops ==
    process.signal ~> AllStopped

\* the part of it about the awaits when the executor task ended without error
ShutdownAwaitsAfterOk ==
    process.joined = {"Ok"} ~> (process.prometheus_joined \/ process.exit # {})

\* the rows a request is answered with when the query runs with the offset
\* (page - 1) * page_size
RowsAtOffset(r) ==
    IF r.resolved
    THEN LimitOffset(BaseQuery(CurrentDb,
                               AsI64(CHOOSE t \in LATEST_CHECKPOINT_UNIX_TIMESTAMP_MS : TRUE),
                               r.address, r.object_type, TRUE),
                     PageSize(r), (PageNumber(r) - 1) * PageSize(r))
    ELSE FilterMapDecode(r.object_type, Selected(r))

\* a request that gets a connection (and the clock if it needs it) with
\* page >= 1 and page_size >= 1
Paginated(r) ==
    /\ r.conn_ok
    /\ r.resolved => LATEST_CHECKPOINT_UNIX_TIMESTAMP_MS # {}
    /\ PageNumber(r) >= 1
    /\ PageSize(r) >= 1

\* C40: for every page >= 1 and page_size >= 1 of the u32 range the query
\* runs with the offset (page - 1) * page_size - the request is answered
\* with the rows at that offset, without a panic and without a wrapped offset
OffsetWithoutWrap ==
    \A r \in response :
        Paginated(r) =>
            /\ r.result.status = "Ok"
            /\ r.result.objects = RowsAtOffset(r)

\* the same for the requests whose (page - 1) * page_size fits in the u32
OffsetWithoutWrapInU32 ==
    \A r \in response :
        Paginated(r) /\ (PageNumber(r) - 1) * PageSize(r) < U32 =>
            /\ r.result.status = "Ok"
            /\ r.result.objects = RowsAtOffset(r)
====
